---- MODULE Spec2Model ----
(***************************************************************************)
(* A model of the autonomous node engine of lunar_biscuit (radiant_chacha): *)
(* the factory's node list, the per-node neighbor list and similarity      *)
(* index, the attempts / permissive_mode state machine, and the discovery  *)
(* pass of a tick with its evictions and rollbacks.                        *)
(*                                                                         *)
(* Numbers.  Positions are points k on the x axis (y = z = 0), k a whole   *)
(* number of length units.  Payloads are the strings "a" * k, written k.   *)
(* Scores and thresholds are fixed-point, in thousandths (0.4 is 400).     *)
(***************************************************************************)
EXTENDS Integers, Sequences, FiniteSets, TLC

\* ---------------------------------------------------------------- bounds
MaxNodes == 3
MaxPos == 1
MaxAttempts == 3
TicksPerNode == 2

\* ------------------------------------------------------ program constants
BLOCK_CONNECTION_THRESHOLD == 400
POINT_CONNECTION_THRESHOLD == 800
SPHERE_CONNECTION_THRESHOLD == 200
SPHERE_INFLUENCE_RADIUS == 15
BLOCK_INFLUENCE_RADIUS == 8
POINT_INFLUENCE_RADIUS == 3
BLOCK_MAX_DEGREE == 6
POINT_MAX_DEGREE == 1
\* float("inf"): larger than any list length or attempts count of the model
Infinity == 1000000
\* should_connect(distance_weight=0.4), in thousandths
DISTANCE_WEIGHT == 400
BLOCK_STABILITY_WINDOW == 10
POINT_STABILITY_WINDOW == 10
SPHERE_STABILITY_WINDOW == 10
\* seconds between two ticks of a node's run()
BLOCK_TICK_INTERVAL == 10
POINT_TICK_INTERVAL == 2
SPHERE_TICK_INTERVAL == 30
\* compute_gravity: the neighbors a Block (min(5, limit)), a Point and a node
\* of infinite degree limit desire
BLOCK_DESIRED == 5
POINT_DESIRED == 1
SPHERE_DESIRED == 10
\* compute_gravity clamps to [0.0, 20.0]
GRAVITY_MAX == 20
\* Gravity and velocity are whole multiples of 1 / GravityUnit: stability
\* is a mean over at most STABILITY_WINDOW - 1 distances, halved
GravityUnit == 5040

Kinds == {"Block", "Point", "Sphere"}
Payloads == {1, 3}
Positions == 0..MaxPos
Ids == 1..MaxNodes
None == <<>>
\* "task": the asyncio event loop that runs the nodes' run() tasks;
\* "thread": the SimulationLoop background thread of main.py
Runners == {"task", "thread"}

VARIABLES
    counter,                  \* NeighborFactory._counter
    nodes,                    \* NeighborFactory.nodes, the ids in creation order
    kind,                     \* node.type
    data,                     \* node.data
    pos,                      \* node.pos
    neighbors,                \* node.neighbors, a list of ids
    neighbors_by_similarity,  \* node.neighbors_by_similarity, a list of <<score, id>>
    attempts,                 \* node.attempts
    permissive_mode,          \* node.permissive_mode
    frame,                    \* per runner: the tick in progress and its locals
    sim_round,                \* SimulationLoop._run_loop: nodes left in this pass
    ticks,                    \* ticks started per node (counted in the scenario only)
    log,                      \* what the tick begun last has done so far: the nodes
                              \* that admitted a new neighbor, that evicted one,
                              \* and that had an evicted one restored
    addr,                     \* node.addr: the digest, as the term that was hashed
    history,                  \* node.history, a list of snapshots
    gravity,                  \* node.gravity, in 1 / GravityUnit
    velocity,                 \* node.velocity (first coordinate), in 1 / GravityUnit
    now,                      \* datetime.now(timezone.utc), in clock readings
    stale,                    \* the nodes with a neighbor whose addr has changed
                              \* since their own last record_history
    recording,                \* whether the specification keeps addr, history,
                              \* gravity and velocity (they do not feed discovery)
    attrs,                    \* node.connection_threshold, .influence_radius,
                              \* .is_anchor, .STABILITY_WINDOW, .tick_interval
    loop_running,             \* asyncio.get_running_loop() succeeds where create
                              \* is called, and the run() tasks are followed
    _event_loop,              \* NeighborFactory._event_loop is set
    _tasks,                   \* NeighborFactory._tasks, as indexes into tasks
    tasks,                    \* the run() tasks started so far on the event loop
    cancelled,                \* the nodes created before a cancel_all_tasks call
                              \* that has returned
    running,                  \* SimulationLoop.running
    response                  \* the node states an API reader has collected

vars == <<counter, nodes, kind, data, pos, neighbors, neighbors_by_similarity,
          attempts, permissive_mode, frame, sim_round, ticks, log,
          addr, history, gravity, velocity, now, stale, recording,
          attrs, loop_running, _event_loop, _tasks, tasks, cancelled, running,
          response>>

\* The identity and history state of the nodes
ident == <<addr, history, gravity, velocity, now, stale>>

\* The event loop's tasks, the simulation thread's flag and the readers
sched == <<loop_running, _event_loop, _tasks, tasks, cancelled, running,
          response>>

\* ------------------------------------------------------------- helpers
Range(s) == {s[i] : i \in 1..Len(s)}
Min(a, b) == IF a <= b THEN a ELSE b
Max(a, b) == IF a >= b THEN a ELSE b
Abs(a) == IF a >= 0 THEN a ELSE -a
Sign(a) == IF a > 0 THEN 1 ELSE IF a < 0 THEN -1 ELSE 0

RECURSIVE SumSeq(_)
SumSeq(s) == IF s = <<>> THEN 0 ELSE Head(s) + SumSeq(Tail(s))

\* list.remove(x): drops the first occurrence of x
RECURSIVE RemoveFirst(_, _)
RemoveFirst(s, x) ==
    IF s = <<>> THEN <<>>
    ELSE IF Head(s) = x THEN Tail(s)
    ELSE <<Head(s)>> \o RemoveFirst(Tail(s), x)

\* [pair for pair in s if pair[1] is not x]
RECURSIVE FilterOut(_, _)
FilterOut(s, x) ==
    IF s = <<>> THEN <<>>
    ELSE IF Head(s)[2] = x THEN FilterOut(Tail(s), x)
    ELSE <<Head(s)>> \o FilterOut(Tail(s), x)

\* list.sort(key=lambda pair: pair[0]): stable, ascending by score
RECURSIVE InsertAfterEqual(_, _)
InsertAfterEqual(s, p) ==
    IF s = <<>> THEN <<p>>
    ELSE IF Head(s)[1] <= p[1] THEN <<Head(s)>> \o InsertAfterEqual(Tail(s), p)
    ELSE <<p>> \o s

RECURSIVE SortByScore(_)
SortByScore(s) ==
    IF s = <<>> THEN <<>>
    ELSE InsertAfterEqual(SortByScore(SubSeq(s, 1, Len(s) - 1)), s[Len(s)])

\* The mutable link state of all nodes, as one value the methods transform.
World ==
    [neighbors |-> neighbors,
     neighbors_by_similarity |-> neighbors_by_similarity,
     attempts |-> attempts,
     permissive_mode |-> permissive_mode]

\* ------------------------------------------------- per-kind configuration
degree_limit_all_finite(o) ==
    IF kind[o] = "Point" THEN POINT_MAX_DEGREE ELSE BLOCK_MAX_DEGREE

degree_limit(o) ==
    CASE kind[o] = "Block" -> BLOCK_MAX_DEGREE
      [] kind[o] = "Point" -> POINT_MAX_DEGREE
      [] OTHER -> Infinity

\* The class attributes of Block, Point and Sphere, before __post_init__:
\* thresholds in thousandths, tick_interval (declared, not assigned) as 0
class_defaults(k) ==
    [connection_threshold |-> CASE k = "Block" -> 400
                                [] k = "Point" -> 800
                                [] OTHER -> 200,
     influence_radius |-> CASE k = "Block" -> 8
                            [] k = "Point" -> 3
                            [] OTHER -> 15,
     is_anchor |-> (k = "Sphere"),
     STABILITY_WINDOW |-> 10,
     tick_interval |-> 0]

\* The keyword arguments of create: the names given and their values
NoOverrides ==
    [given |-> {}, connection_threshold |-> 0, influence_radius |-> 0,
     attempts |-> 0, velocity |-> 0, gravity |-> 0, is_anchor |-> FALSE,
     STABILITY_WINDOW |-> 0, tick_interval |-> 0]

\* init_kwargs.update(overrides); cls(**init_kwargs): a field named in the
\* overrides gets the value given, any other its default
Field(ov, name, default) == IF name \in ov.given THEN ov[name] ELSE default

\* __post_init__ of the three classes: the config default where the
\* threshold or the radius still equals the class attribute, and the
\* config's window and tick interval in every case
__post_init__(k, a) ==
    [a EXCEPT
       !.connection_threshold =
           IF @ = class_defaults(k).connection_threshold
           THEN (CASE k = "Block" -> BLOCK_CONNECTION_THRESHOLD
                   [] k = "Point" -> POINT_CONNECTION_THRESHOLD
                   [] OTHER -> SPHERE_CONNECTION_THRESHOLD)
           ELSE @,
       !.influence_radius =
           IF @ = class_defaults(k).influence_radius
           THEN (CASE k = "Block" -> BLOCK_INFLUENCE_RADIUS
                   [] k = "Point" -> POINT_INFLUENCE_RADIUS
                   [] OTHER -> SPHERE_INFLUENCE_RADIUS)
           ELSE @,
       !.STABILITY_WINDOW =
           CASE k = "Block" -> BLOCK_STABILITY_WINDOW
             [] k = "Point" -> POINT_STABILITY_WINDOW
             [] OTHER -> SPHERE_STABILITY_WINDOW,
       !.tick_interval =
           CASE k = "Block" -> BLOCK_TICK_INTERVAL
             [] k = "Point" -> POINT_TICK_INTERVAL
             [] OTHER -> SPHERE_TICK_INTERVAL]

\* The attributes of a node of kind k created with no overrides
Configured(k) == __post_init__(k, class_defaults(k))

connection_threshold(o) == attrs[o].connection_threshold

influence_radius(o) == attrs[o].influence_radius

never_anchor(o) == FALSE

is_anchor(o) == attrs[o].is_anchor

\* ------------------------------------------------------------ similarity
\* _string_similarity on "a"*a and "a"*b, as the fraction <<num, den>>:
\* 1 when equal, else difflib's 2*M/T with M = min(a, b) matching characters
similarity_score(a, b) ==
    IF a = b THEN <<1, 1>>
    ELSE IF a = 0 \/ b = 0 THEN <<0, 1>>
    ELSE <<2 * Min(a, b), a + b>>

distance_to(o, other) == Abs(pos[o] - pos[other])

should_connect_any(o, other) ==
    LET sim == similarity_score(data[o], data[other])
        dist == distance_to(o, other)
        diameter == Max(2, influence_radius(o) + influence_radius(other))
        proximity == Max(0, (DISTANCE_WEIGHT * (diameter - dist)) \div diameter)
        raw == ((1000 - DISTANCE_WEIGHT) * sim[1]) \div sim[2] + proximity
        score == Max(0, Min(1000, raw))
    IN  [ok |-> TRUE, score |-> score]

\* should_connect(obj, other, threshold=obj.connection_threshold)
should_connect(o, other) ==
    LET sim == similarity_score(data[o], data[other])
        dist == distance_to(o, other)
        \* 2 * radius, radius = max(1.0, (radius_a + radius_b) / 2.0)
        diameter == Max(2, influence_radius(o) + influence_radius(other))
        proximity == Max(0, (DISTANCE_WEIGHT * (diameter - dist)) \div diameter)
        raw == ((1000 - DISTANCE_WEIGHT) * sim[1]) \div sim[2] + proximity
        score == Max(0, Min(1000, raw))
    IN  [ok |-> score >= connection_threshold(o), score |-> score]

\* -------------------------------------------------------------- movement
\* Variants of the methods below, each with one defect, that the properties
\* at the end of the module are checked to tell apart from the methods
can_accept_up_to_limit(w, o) == Len(w.neighbors[o]) <= degree_limit(o)

can_accept_more_neighbors(w, o) == Len(w.neighbors[o]) < degree_limit(o)

_permissive_threshold_single(o) ==
    IF degree_limit(o) = Infinity \/ degree_limit(o) <= 0
    THEN Infinity
    ELSE degree_limit(o)

_permissive_threshold_zero(o) ==
    IF degree_limit(o) = Infinity \/ degree_limit(o) <= 0
    THEN 0
    ELSE degree_limit(o) * 2

_permissive_threshold(o) ==
    IF degree_limit(o) = Infinity \/ degree_limit(o) <= 0
    THEN Infinity
    ELSE degree_limit(o) * 2

_never_permissive(w, o) == w

_update_permissive_state(w, o) ==
    IF w.permissive_mode[o] THEN w
    ELSE IF w.attempts[o] >= _permissive_threshold(o)
         THEN [w EXCEPT !.permissive_mode[o] = TRUE]
         ELSE w

register_without_counting(w, o) == _update_permissive_state(w, o)

register_neighbor_attempt_failure(w, o) ==
    _update_permissive_state([w EXCEPT !.attempts[o] = @ + 1], o)

_record_unsorted(w, o, other, score) ==
    [w EXCEPT !.neighbors_by_similarity[o] = Append(@, <<score, other>>)]

_record_neighbor_similarity(w, o, other, score) ==
    [w EXCEPT !.neighbors_by_similarity[o] = SortByScore(Append(@, <<score, other>>))]

\* None, or the first entry of the (re-sorted) similarity index
lowest_similarity_neighbor(w, o) ==
    IF w.neighbors_by_similarity[o] = <<>> THEN None
    ELSE Head(SortByScore(w.neighbors_by_similarity[o]))

remove_neighbor(w, o, other) ==
    [w EXCEPT !.neighbors[o] = RemoveFirst(@, other),
              !.neighbors_by_similarity[o] = FilterOut(@, other)]

evict_one_sided(w, o, incoming_score) ==
    LET weakest == lowest_similarity_neighbor(w, o)
    IN  IF ~w.permissive_mode[o] \/ weakest = None THEN [w |-> w, res |-> None]
        ELSE IF incoming_score <= weakest[1] THEN [w |-> w, res |-> None]
        ELSE [w |-> remove_neighbor(w, o, weakest[2]), res |-> weakest]

evict_on_tie(w, o, incoming_score) ==
    LET weakest == lowest_similarity_neighbor(w, o)
        sorted == [w EXCEPT !.neighbors_by_similarity[o] = SortByScore(@)]
    IN  IF ~w.permissive_mode[o] THEN [w |-> w, res |-> None]
        ELSE IF weakest = None THEN [w |-> w, res |-> None]
        ELSE IF incoming_score < weakest[1] THEN [w |-> sorted, res |-> None]
        ELSE [w |-> remove_neighbor(remove_neighbor(sorted, o, weakest[2]),
                                    weakest[2], o),
              res |-> weakest]

\* [w |-> the world after the call, res |-> None or <<score, neighbor>>]
evict_weakest_neighbor(w, o, incoming_score) ==
    LET weakest == lowest_similarity_neighbor(w, o)
        sorted == [w EXCEPT !.neighbors_by_similarity[o] = SortByScore(@)]
    IN  IF ~w.permissive_mode[o] THEN [w |-> w, res |-> None]
        ELSE IF weakest = None THEN [w |-> w, res |-> None]
        ELSE IF incoming_score <= weakest[1] THEN [w |-> sorted, res |-> None]
        ELSE [w |-> remove_neighbor(remove_neighbor(sorted, o, weakest[2]),
                                    weakest[2], o),
              res |-> weakest]

never_neighbor(w, o, other) == FALSE

\* other in obj.neighbors
is_neighbor(w, o, other) == other \in Range(w.neighbors[o])

add_neighbor_keeps_attempts(w, o, other, score) ==
    IF other = o \/ other \in Range(w.neighbors[o]) THEN [w |-> w, ok |-> FALSE]
    ELSE IF Len(w.neighbors[o]) >= degree_limit(o)
         THEN [w |-> [w EXCEPT !.attempts[o] = @ + 1], ok |-> FALSE]
    ELSE [w |-> [w EXCEPT !.neighbors[o] = Append(@, other),
                          !.neighbors_by_similarity[o] =
                              SortByScore(Append(@, <<score, other>>))],
          ok |-> TRUE]

add_neighbor_capacity_first(w, o, other, score) ==
    IF other = o THEN [w |-> w, ok |-> FALSE]
    ELSE IF ~can_accept_more_neighbors(w, o)
         THEN [w |-> register_neighbor_attempt_failure(w, o), ok |-> FALSE]
    ELSE IF is_neighbor(w, o, other) THEN [w |-> w, ok |-> FALSE]
    ELSE LET w1 == [w EXCEPT !.neighbors[o] = Append(@, other)]
             w2 == _record_neighbor_similarity(w1, o, other, score)
         IN  [w |-> [w2 EXCEPT !.attempts[o] = 0, !.permissive_mode[o] = FALSE],
              ok |-> TRUE]

\* [w |-> the world after the call, ok |-> the returned bool]
add_neighbor(w, o, other, score) ==
    IF other = o THEN [w |-> w, ok |-> FALSE]
    ELSE IF is_neighbor(w, o, other) THEN [w |-> w, ok |-> FALSE]
    ELSE IF ~can_accept_more_neighbors(w, o)
         THEN [w |-> register_neighbor_attempt_failure(w, o), ok |-> FALSE]
    ELSE LET w1 == [w EXCEPT !.neighbors[o] = Append(@, other)]
             w2 == _record_neighbor_similarity(w1, o, other, score)
         IN  [w |-> [w2 EXCEPT !.attempts[o] = 0, !.permissive_mode[o] = FALSE],
              ok |-> TRUE]

restore_one_sided(w, o, other, score) == add_neighbor(w, o, other, score).w

restore_without_score(w, o, other, score) ==
    add_neighbor(add_neighbor(w, o, other, score).w, other, o, 0).w

restore_neighbor(w, o, other, score) ==
    add_neighbor(add_neighbor(w, o, other, score).w, other, o, score).w

\* restore_neighbor(obj, evicted[1], evicted[0]) when something was evicted
RestoreIf(w, o, evicted) ==
    IF evicted = None THEN w ELSE restore_neighbor(w, o, evicted[2], evicted[1])

\* ---------------------------------------------------- identity, history
\* sorted(obj.neighbors, key=lambda n: n.id): stable, ascending by id
RECURSIVE InsertById(_, _)
InsertById(s, x) ==
    IF s = <<>> THEN <<x>>
    ELSE IF Head(s) <= x THEN <<Head(s)>> \o InsertById(Tail(s), x)
    ELSE <<x>> \o s

RECURSIVE SortById(_)
SortById(s) ==
    IF s = <<>> THEN <<>>
    ELSE InsertById(SortById(SubSeq(s, 1, Len(s) - 1)), s[Len(s)])

\* The addr and history of all nodes, as one value the methods transform
IdentityWorld == [addr |-> addr, history |-> history]

\* sha256 is modelled as injective: a digest is the term that was hashed
_generate_addr(birth) == <<"birth", birth>>

update_addr_without_pos(iw, o) ==
    LET sorted == SortById(neighbors[o])
    IN  [iw EXCEPT !.addr[o] =
            <<"state", o, data[o], 0,
              [i \in 1..Len(sorted) |-> iw.addr[sorted[i]]]>>]

update_addr_of_neighbors(iw, o) ==
    LET sorted == SortById(neighbors[o])
        digest == <<"state", o, data[o], pos[o],
                    [i \in 1..Len(sorted) |-> iw.addr[sorted[i]]]>>
    IN  [iw EXCEPT !.addr = [m \in DOMAIN @ |->
                                IF m = o \/ m \in Range(neighbors[o])
                                THEN digest ELSE @[m]]]

update_addr(iw, o) ==
    LET sorted == SortById(neighbors[o])
    IN  [iw EXCEPT !.addr[o] =
            <<"state", o, data[o], pos[o],
              [i \in 1..Len(sorted) |-> iw.addr[sorted[i]]]>>]

\* [{"id": nb.id, "type": nb.type, "addr": nb.addr} for nb in obj.neighbors]
neighbor_summary(iw, o) ==
    [i \in 1..Len(neighbors[o]) |->
        <<neighbors[o][i], kind[neighbors[o][i]], iw.addr[neighbors[o][i]]>>]

snapshot_one_based(iw, o) ==
    [iw EXCEPT !.history[o] =
        Append(@, [idx |-> Len(@) + 1,
                   addr |-> iw.addr[o],
                   neighbors |-> neighbor_summary(iw, o),
                   pos |-> pos[o],
                   data |-> data[o],
                   gravity |-> gravity[o],
                   type |-> kind[o],
                   velocity |-> velocity[o],
                   neighbor_event |-> None])]

snapshot(iw, o) ==
    [iw EXCEPT !.history[o] =
        Append(@, [idx |-> Len(@),
                   addr |-> iw.addr[o],
                   neighbors |-> neighbor_summary(iw, o),
                   pos |-> pos[o],
                   data |-> data[o],
                   gravity |-> gravity[o],
                   type |-> kind[o],
                   velocity |-> velocity[o],
                   neighbor_event |-> None])]

\* (a != b).all() on two vectors is true only when every coordinate differs.
\* The model keeps the first coordinate; whether the others differ too when
\* the first does is the input all_differ, for pos and for velocity.
Differ == [pos : BOOLEAN, velocity : BOOLEAN]

_has_changed_always(iw, o, all_differ) == TRUE

_has_changed(iw, o, all_differ) ==
    LET last == iw.history[o][Len(iw.history[o])]
    IN  \/ neighbor_summary(iw, o) # last.neighbors
        \/ (pos[o] # last.pos /\ all_differ.pos)
        \/ gravity[o] # last.gravity
        \/ kind[o] # last.type
        \/ (velocity[o] # last.velocity /\ all_differ.velocity)

record_history(iw, o, all_differ) ==
    LET w0 == IF iw.history[o] = <<>> THEN snapshot(iw, o) ELSE iw
    IN  IF _has_changed(w0, o, all_differ)
        THEN snapshot(update_addr(w0, o), o)
        ELSE w0

\* obj.history[-1]["neighbor_event"] = {"event": "connected", peer, score}
record_event(h, peer, score) ==
    IF h = <<>> THEN h
    ELSE [h EXCEPT ![Len(h)].neighbor_event = <<peer, score>>]

\* ---------------------------------------------------------------- physics
stability_window(o) == attrs[o].STABILITY_WINDOW

\* stability(obj) as <<sum of the distances, number of distances>>
stability(o) ==
    LET h == history[o]
        first == Max(1, Len(h) - stability_window(o) + 1)
        positions == [i \in 1..(Len(h) - first + 1) |-> h[first + i - 1].pos]
    IN  IF Len(h) < 2 THEN <<0, 1>>
        ELSE <<SumSeq([i \in 1..(Len(positions) - 1) |->
                          Abs(positions[i + 1] - positions[i])]),
               Len(positions) - 1>>

competition(o) == Max(0, attempts[o] - degree_limit(o))

desired(o) ==
    CASE kind[o] = "Block" -> Min(BLOCK_DESIRED, Max(0, degree_limit(o)))
      [] kind[o] = "Point" -> POINT_DESIRED
      [] OTHER -> SPHERE_DESIRED

\* gravity = competition - 0.5 * stability + 0.5 * deficit, clamped
compute_gravity(o) ==
    LET s == stability(o)
        deficit == Max(0, desired(o) - Len(neighbors[o]))
        half == GravityUnit \div 2
        raw == GravityUnit * competition(o) - (half * s[1]) \div s[2]
               + half * deficit
    IN  Max(0, Min(GRAVITY_MAX * GravityUnit, raw))

\* NeighborBase.competition(self): the neighbors beyond the degree limit
NeighborBase_competition(o) == Max(0, Len(neighbors[o]) - degree_limit(o))

\* NeighborBase.compute_gravity(self): competition - 0.5 * stability, clamped
NeighborBase_compute_gravity(o) ==
    LET s == stability(o)
        raw == GravityUnit * NeighborBase_competition(o)
               - ((GravityUnit \div 2) * s[1]) \div s[2]
    IN  Max(0, Min(GRAVITY_MAX * GravityUnit, raw))

\* --------------------------------------------------------------- actions
\* pre: the neighbor lists and similarity indexes when the step for the
\* current candidate began
IdleFrame ==
    [pc |-> "idle", obj |-> 0, cands |-> <<>>, cand |-> 0, score |-> 0,
     node_is_full |-> FALSE, evicted_self |-> None, evicted_cand |-> None,
     pre |-> None]

\* The log is kept where log.on is set (the cooperative specifications)
EmptyLog == [on |-> TRUE, admitted |-> {}, evicted |-> {}, restored |-> {}]
NoLog == [on |-> FALSE, admitted |-> {}, evicted |-> {}, restored |-> {}]
Admit(n) == IF log.on THEN [log EXCEPT !.admitted = @ \cup {n}] ELSE log
Evict(n) == IF log.on THEN [log EXCEPT !.evicted = @ \cup {n}] ELSE log
\* the rollbacks that RestoreIf runs for the evictions of a failed step
Restore(f) ==
    IF log.on
    THEN [log EXCEPT !.restored =
                 @ \cup (IF f.evicted_self = None THEN {} ELSE {f.obj})
                   \cup (IF f.evicted_cand = None THEN {} ELSE {f.cand})]
    ELSE log

Created == Range(nodes)

\* The magnet scenario: a Sphere and one Block more than a Block can hold
MagnetIds == 1..(BLOCK_MAX_DEGREE + 2)
MagnetAttempts == 8

\* The anchored scenario: one node more than the registry of the other
\* scenarios holds, every node created as an anchor
AnchoredIds == 1..(MaxNodes + 1)

\* Write the world back; the attempts counter is capped by the model. In the
\* anchored scenario, which runs for ever, a count above MaxAttempts is kept
\* as MaxAttempts: the attempts of an anchor are read by the test
\* attempts >= 2 * max_degree alone, which a Point passes from 2 on and a
\* Block, never full there, is never put to
Commit(w, lg) ==
    /\ DOMAIN w.attempts # AnchoredIds
           => \A n \in DOMAIN w.attempts :
                  w.attempts[n] <= (IF DOMAIN w.attempts = MagnetIds
                                    THEN MagnetAttempts ELSE MaxAttempts)
    /\ neighbors' = w.neighbors
    /\ neighbors_by_similarity' = w.neighbors_by_similarity
    /\ attempts' = IF DOMAIN w.attempts = AnchoredIds
                   THEN [n \in AnchoredIds |-> Min(w.attempts[n], MaxAttempts)]
                   ELSE w.attempts
    /\ permissive_mode' = w.permissive_mode
    /\ log' = lg

\* The next candidate of the loop, with the locals of the last one cleared
Continue(f) ==
    [f EXCEPT !.pc = "discover", !.cand = 0, !.score = 0, !.node_is_full = FALSE,
              !.evicted_self = None, !.evicted_cand = None, !.pre = None]

_next_id_reused(c) == Max(1, c)

\* self._counter += 1; return self._counter
_next_id(c) == c + 1

\* A run() task of node o, as the event loop holds it
Task(o) == [obj |-> o, state |-> "running"]

\* NeighborFactory.create(cls, data=, pos=, **overrides): a new id, the
\* node built by cls(**init_kwargs) and appended. __post_init__ starts a
\* run() task where a loop is running, and create starts one, kept in
\* _tasks, where the factory has an event loop
create(k, d, p, ov) ==
    /\ counter < MaxNodes
    /\ LET id == _next_id(counter)
           given == [name \in DOMAIN class_defaults(k) |->
                        Field(ov, name, class_defaults(k)[name])]
           started == IF loop_running THEN Append(tasks, Task(id)) ELSE tasks
       IN  /\ counter' = id
           /\ nodes' = Append(nodes, id)
           /\ kind' = [kind EXCEPT ![id] = k]
           /\ data' = [data EXCEPT ![id] = d]
           /\ pos' = [pos EXCEPT ![id] = p]
           /\ attrs' = [attrs EXCEPT ![id] = __post_init__(k, given)]
           /\ attempts' = [attempts EXCEPT ![id] = Field(ov, "attempts", 0)]
           /\ gravity' = [gravity EXCEPT ![id] = Field(ov, "gravity", 0)]
           /\ velocity' = [velocity EXCEPT ![id] = Field(ov, "velocity", 0)]
           \* birth = datetime.now(): the clock has moved on since the last
           \* reading, or not
           /\ IF recording
              THEN \E birth \in {now, now + 1} :
                       /\ now' = birth
                       /\ addr' = [addr EXCEPT ![id] = _generate_addr(birth)]
              ELSE UNCHANGED <<addr, now>>
           /\ IF _event_loop
              THEN /\ tasks' = Append(started, Task(id))
                   /\ _tasks' = _tasks \cup {Len(started) + 1}
              ELSE /\ tasks' = started
                   /\ UNCHANGED _tasks
    /\ UNCHANGED <<neighbors, neighbors_by_similarity, permissive_mode,
                   frame, sim_round, ticks, log, history, stale, recording,
                   loop_running, _event_loop, cancelled, running, response>>

\* create with no overrides
FactoryCreate(k, d, p) == create(k, d, p, NoOverrides)

\* tick(obj), up to the candidate list of discover_and_negotiate
TickBegin(r, n) ==
    /\ frame[r].pc = "idle"
    /\ n \in Created
    /\ frame' = [frame EXCEPT ![r] =
                    [IdleFrame EXCEPT !.pc = "discover", !.obj = n, !.cands = nodes]]
    /\ log' = (IF log.on THEN EmptyLog ELSE log)
    /\ IF recording
       THEN \E all_differ \in Differ :
                LET w == record_history(IdentityWorld, n, all_differ)
                IN  /\ addr' = w.addr
                    /\ history' = w.history
                    /\ stale' = (stale \ {n}) \cup
                                (IF w.addr[n] # addr[n] THEN Range(neighbors[n])
                                 ELSE {})
       ELSE UNCHANGED <<addr, history, stale>>
    /\ UNCHANGED <<counter, nodes, kind, data, pos, neighbors,
                   neighbors_by_similarity, attempts, permissive_mode,
                   gravity, velocity, now, recording, attrs, sched>>

\* discover_and_negotiate, one candidate: the skips, the saturation check
\* and should_connect
Discover(r) ==
    LET f == frame[r]
        obj == f.obj
        cand == Head(f.cands)
        rest == [f EXCEPT !.cands = Tail(f.cands)]
        node_is_full == ~can_accept_more_neighbors(World, obj)
        sc == should_connect(obj, cand)
    IN  /\ f.pc = "discover"
        /\ IF f.cands = <<>>
           THEN /\ frame' = [frame EXCEPT ![r] = [f EXCEPT !.pc = "gravity"]]
                /\ Commit(World, log)
           ELSE IF cand = obj \/ is_neighbor(World, obj, cand)
           THEN /\ frame' = [frame EXCEPT ![r] = rest]
                /\ Commit(World, log)
           ELSE IF node_is_full /\ ~permissive_mode[obj]
           THEN /\ frame' = [frame EXCEPT ![r] = rest]
                /\ Commit(register_neighbor_attempt_failure(World, obj), log)
           ELSE IF ~sc.ok
           THEN /\ frame' = [frame EXCEPT ![r] = rest]
                /\ Commit(World, log)
           ELSE /\ frame' = [frame EXCEPT ![r] =
                               [rest EXCEPT !.pc = "evict_self", !.cand = cand,
                                            !.score = sc.score,
                                            !.node_is_full = node_is_full,
                                            !.pre = <<neighbors,
                                                      neighbors_by_similarity>>]]
                /\ Commit(World, log)
        /\ UNCHANGED <<counter, nodes, kind, data, pos, sim_round, ticks>>
        /\ UNCHANGED <<ident, recording, attrs, sched>>

\* if node_is_full: evicted_self = evict_weakest_neighbor(obj, score)
EvictSelf(r) ==
    LET f == frame[r]
        ev == evict_weakest_neighbor(World, f.obj, f.score)
    IN  /\ f.pc = "evict_self"
        /\ IF ~f.node_is_full
           THEN /\ frame' = [frame EXCEPT ![r] = [f EXCEPT !.pc = "check_cand"]]
                /\ Commit(World, log)
           ELSE IF ev.res = None
           THEN /\ frame' = [frame EXCEPT ![r] = Continue(f)]
                /\ Commit(ev.w, log)
           ELSE /\ frame' = [frame EXCEPT ![r] =
                               [f EXCEPT !.pc = "check_cand", !.evicted_self = ev.res]]
                /\ Commit(ev.w, Evict(f.obj))
        /\ UNCHANGED <<counter, nodes, kind, data, pos, sim_round, ticks>>
        /\ UNCHANGED <<ident, recording, attrs, sched>>

\* cand_is_full: the candidate refuses, or evicts its weakest neighbor
CheckCandidate(r) ==
    LET f == frame[r]
        cand_is_full == ~can_accept_more_neighbors(World, f.cand)
        refused == register_neighbor_attempt_failure(
                       RestoreIf(World, f.obj, f.evicted_self), f.cand)
        ev == evict_weakest_neighbor(World, f.cand, f.score)
        refused_ev == register_neighbor_attempt_failure(
                          RestoreIf(ev.w, f.obj, f.evicted_self), f.cand)
    IN  /\ f.pc = "check_cand"
        /\ IF cand_is_full /\ ~permissive_mode[f.cand]
           THEN /\ frame' = [frame EXCEPT ![r] = Continue(f)]
                /\ Commit(refused, Restore(f))
           ELSE IF ~cand_is_full
           THEN /\ frame' = [frame EXCEPT ![r] = [f EXCEPT !.pc = "add_self"]]
                /\ Commit(World, log)
           ELSE IF ev.res = None
           THEN /\ frame' = [frame EXCEPT ![r] = Continue(f)]
                /\ Commit(refused_ev, Restore(f))
           ELSE /\ frame' = [frame EXCEPT ![r] =
                               [f EXCEPT !.pc = "add_self", !.evicted_cand = ev.res]]
                /\ Commit(ev.w, Evict(f.cand))
        /\ UNCHANGED <<counter, nodes, kind, data, pos, sim_round, ticks>>
        /\ UNCHANGED <<ident, recording, attrs, sched>>

\* added_self = add_neighbor(obj, cand, score), rolled back when it fails
AddSelf(r) ==
    LET f == frame[r]
        added_self == add_neighbor(World, f.obj, f.cand, f.score)
        rolled == register_neighbor_attempt_failure(
                      RestoreIf(RestoreIf(added_self.w, f.obj, f.evicted_self),
                                f.cand, f.evicted_cand),
                      f.obj)
    IN  /\ f.pc = "add_self"
        /\ IF added_self.ok
           THEN /\ frame' = [frame EXCEPT ![r] = [f EXCEPT !.pc = "add_cand"]]
                /\ Commit(added_self.w, Admit(f.obj))
           ELSE /\ frame' = [frame EXCEPT ![r] = Continue(f)]
                /\ Commit(rolled, Restore(f))
        /\ UNCHANGED <<counter, nodes, kind, data, pos, sim_round, ticks>>
        /\ UNCHANGED <<ident, recording, attrs, sched>>

\* added_cand = add_neighbor(cand, obj, score), rolled back when it fails
AddCand(r) ==
    LET f == frame[r]
        added_cand == add_neighbor(World, f.cand, f.obj, f.score)
        rolled == register_neighbor_attempt_failure(
                      RestoreIf(RestoreIf(remove_neighbor(added_cand.w, f.obj, f.cand),
                                          f.obj, f.evicted_self),
                                f.cand, f.evicted_cand),
                      f.cand)
    IN  /\ f.pc = "add_cand"
        /\ frame' = [frame EXCEPT ![r] = Continue(f)]
        /\ IF added_cand.ok
           THEN /\ Commit(added_cand.w, Admit(f.cand))
                /\ history' = IF recording
                              THEN [history EXCEPT ![f.obj] =
                                       record_event(@, f.cand, f.score)]
                              ELSE history
           ELSE /\ Commit(rolled, Restore(f))
                /\ history' = history
        /\ UNCHANGED <<counter, nodes, kind, data, pos, sim_round, ticks>>
        /\ UNCHANGED <<addr, gravity, velocity, now, stale, recording, attrs, sched>>

\* local_gravity_vector: the sign of (centroid of the neighbors - pos)
local_gravity_vector(o) ==
    IF neighbors[o] = <<>> THEN 0
    ELSE Sign(SumSeq([i \in 1..Len(neighbors[o]) |-> pos[neighbors[o][i]]])
              - Len(neighbors[o]) * pos[o])

\* apply_gravity(obj, dt): an anchor stays; otherwise the node moves by
\* direction * gravity * dt, a length >= 0 that the model leaves open
\* Where gravity is kept, the node moves when gravity > 0 and only then
ApplyGravity(r) ==
    LET f == frame[r]
        direction == local_gravity_vector(f.obj)
        g == IF recording THEN compute_gravity(f.obj) ELSE gravity[f.obj]
    IN  /\ f.pc = "gravity"
        /\ frame' = [frame EXCEPT ![r] = IdleFrame]
        /\ IF is_anchor(f.obj)
           THEN UNCHANGED <<pos, gravity, velocity>>
           ELSE /\ gravity' = [gravity EXCEPT ![f.obj] = g]
                /\ IF direction = 0
                   THEN UNCHANGED <<pos, velocity>>
                   ELSE /\ \E p \in Positions :
                              /\ direction * (p - pos[f.obj]) >= 0
                              /\ recording => ((p = pos[f.obj]) <=> (g = 0))
                              /\ pos' = [pos EXCEPT ![f.obj] = p]
                        /\ velocity' = IF recording
                                       THEN [velocity EXCEPT ![f.obj] = direction * g]
                                       ELSE velocity
        /\ UNCHANGED <<counter, nodes, kind, data, neighbors, neighbors_by_similarity,
                       attempts, permissive_mode, sim_round, ticks, log,
                       addr, history, now, stale, recording, attrs, sched>>

\* One step of the tick that runner r has in progress
TickStep(r) ==
    \/ Discover(r)
    \/ EvictSelf(r)
    \/ CheckCandidate(r)
    \/ AddSelf(r)
    \/ AddCand(r)
    \/ ApplyGravity(r)

\* ------------------------------------------------------- specifications
Init ==
    /\ counter = 0
    /\ nodes = <<>>
    /\ kind = [n \in Ids |-> "none"]
    /\ data = [n \in Ids |-> 0]
    /\ pos = [n \in Ids |-> 0]
    /\ neighbors = [n \in Ids |-> <<>>]
    /\ neighbors_by_similarity = [n \in Ids |-> <<>>]
    /\ attempts = [n \in Ids |-> 0]
    /\ permissive_mode = [n \in Ids |-> FALSE]
    /\ frame = [r \in Runners |-> IdleFrame]
    /\ sim_round = <<>>
    /\ ticks = [n \in Ids |-> 0]
    /\ log = EmptyLog
    /\ addr = [n \in Ids |-> None]
    /\ history = [n \in Ids |-> <<>>]
    /\ gravity = [n \in Ids |-> 0]
    /\ velocity = [n \in Ids |-> 0]
    /\ now = 0
    /\ stale = {}
    /\ recording = FALSE
    /\ attrs = [n \in Ids |-> Configured(kind[n])]
    /\ loop_running = FALSE
    /\ _event_loop = FALSE
    /\ _tasks = {}
    /\ tasks = <<>>
    /\ cancelled = {}
    /\ running = FALSE
    /\ response = <<>>

\* No tick is in progress
Boundary == \A r \in Runners : frame[r].pc = "idle"

\* The cooperative scheduler: one event loop runs every node's task, and a
\* tick runs to its end before anything else does
Create ==
    \E k \in Kinds, d \in Payloads, p \in Positions :
        Boundary /\ FactoryCreate(k, d, p)

TaskTick ==
    \E n \in Ids :
        TickBegin("task", n) /\ UNCHANGED <<sim_round, ticks>>

Next ==
    \/ Create
    \/ TaskTick
    \/ TickStep("task")

Spec == Init /\ [][Next]_vars

\* main.py: the nodes are created by the API's create_node on the event
\* loop, where __post_init__ starts each node's run() task, and the
\* SimulationLoop thread ticks list(factory.nodes) in passes of its own
\* (explored for the requests that create Blocks and Points with payload "a"
\* at the origin)
ApiCreate ==
    \E k \in {"Block", "Point"} :
        frame["task"].pc = "idle" /\ FactoryCreate(k, 1, 0)

ThreadPass ==
    /\ running
    /\ frame["thread"].pc = "idle"
    /\ sim_round = <<>>
    /\ nodes # <<>>
    /\ sim_round' = nodes
    /\ UNCHANGED <<counter, nodes, kind, data, pos, neighbors, neighbors_by_similarity,
                   attempts, permissive_mode, frame, ticks, log>>
    /\ UNCHANGED <<ident, recording, attrs, sched>>

ThreadTick ==
    /\ sim_round # <<>>
    /\ TickBegin("thread", Head(sim_round))
    /\ sim_round' = Tail(sim_round)
    /\ UNCHANGED ticks

InitThreads ==
    /\ counter = 0
    /\ nodes = <<>>
    /\ kind = [n \in Ids |-> "none"]
    /\ data = [n \in Ids |-> 0]
    /\ pos = [n \in Ids |-> 0]
    /\ neighbors = [n \in Ids |-> <<>>]
    /\ neighbors_by_similarity = [n \in Ids |-> <<>>]
    /\ attempts = [n \in Ids |-> 0]
    /\ permissive_mode = [n \in Ids |-> FALSE]
    /\ frame = [r \in Runners |-> IdleFrame]
    /\ sim_round = <<>>
    /\ ticks = [n \in Ids |-> 0]
    /\ log = NoLog
    /\ addr = [n \in Ids |-> None]
    /\ history = [n \in Ids |-> <<>>]
    /\ gravity = [n \in Ids |-> 0]
    /\ velocity = [n \in Ids |-> 0]
    /\ now = 0
    /\ stale = {}
    /\ recording = FALSE
    /\ attrs = [n \in Ids |-> Configured(kind[n])]
    /\ loop_running = FALSE
    /\ _event_loop = FALSE
    /\ _tasks = {}
    /\ tasks = <<>>
    /\ cancelled = {}
    /\ running = TRUE
    /\ response = <<>>

NextThreads ==
    \/ ApiCreate
    \/ TaskTick
    \/ TickStep("task")
    \/ ThreadPass
    \/ ThreadTick
    \/ TickStep("thread")

SpecThreads == InitThreads /\ [][NextThreads]_vars

\* The Point scenario: a Point and two Blocks with the same payload, created
\* in any order with no event loop bound, then ticked by a harness, each
\* node TicksPerNode times in any order
ScenarioIds == 1..3

InitPoint ==
    /\ counter = 3
    /\ nodes = <<1, 2, 3>>
    /\ \E point \in ScenarioIds :
           kind = [n \in Ids |-> IF n = point THEN "Point"
                                 ELSE IF n \in ScenarioIds THEN "Block" ELSE "none"]
    /\ data = [n \in Ids |-> IF n \in ScenarioIds THEN 1 ELSE 0]
    /\ pos \in [Ids -> Positions]
    /\ \A n \in Ids \ ScenarioIds : pos[n] = 0
    /\ neighbors = [n \in Ids |-> <<>>]
    /\ neighbors_by_similarity = [n \in Ids |-> <<>>]
    /\ attempts = [n \in Ids |-> 0]
    /\ permissive_mode = [n \in Ids |-> FALSE]
    /\ frame = [r \in Runners |-> IdleFrame]
    /\ sim_round = <<>>
    /\ ticks = [n \in Ids |-> 0]
    /\ log = EmptyLog
    /\ addr = [n \in Ids |-> None]
    /\ history = [n \in Ids |-> <<>>]
    /\ gravity = [n \in Ids |-> 0]
    /\ velocity = [n \in Ids |-> 0]
    /\ now = 0
    /\ stale = {}
    /\ recording = FALSE
    /\ attrs = [n \in Ids |-> Configured(kind[n])]
    /\ loop_running = FALSE
    /\ _event_loop = FALSE
    /\ _tasks = {}
    /\ tasks = <<>>
    /\ cancelled = {}
    /\ running = FALSE
    /\ response = <<>>

CountedTick ==
    \E n \in Ids :
        /\ ticks[n] < TicksPerNode
        /\ TickBegin("task", n)
        /\ ticks' = [ticks EXCEPT ![n] = @ + 1]
        /\ UNCHANGED sim_round

NextPoint ==
    \/ CountedTick
    \/ TickStep("task")

SpecPoint == InitPoint /\ [][NextPoint]_vars

\* The nodes with their identity and history kept: Blocks and Spheres of one
\* payload are created at any time between ticks, and each is ticked at most
\* TicksPerNode times, in any order
InitHistory ==
    /\ counter = 0
    /\ nodes = <<>>
    /\ kind = [n \in Ids |-> "none"]
    /\ data = [n \in Ids |-> 0]
    /\ pos = [n \in Ids |-> 0]
    /\ neighbors = [n \in Ids |-> <<>>]
    /\ neighbors_by_similarity = [n \in Ids |-> <<>>]
    /\ attempts = [n \in Ids |-> 0]
    /\ permissive_mode = [n \in Ids |-> FALSE]
    /\ frame = [r \in Runners |-> IdleFrame]
    /\ sim_round = <<>>
    /\ ticks = [n \in Ids |-> 0]
    /\ log = NoLog
    /\ addr = [n \in Ids |-> None]
    /\ history = [n \in Ids |-> <<>>]
    /\ gravity = [n \in Ids |-> 0]
    /\ velocity = [n \in Ids |-> 0]
    /\ now = 0
    /\ stale = {}
    /\ recording = TRUE
    /\ attrs = [n \in Ids |-> Configured(kind[n])]
    /\ loop_running = FALSE
    /\ _event_loop = FALSE
    /\ _tasks = {}
    /\ tasks = <<>>
    /\ cancelled = {}
    /\ running = FALSE
    /\ response = <<>>

CreateRecorded ==
    \E k \in {"Block", "Sphere"}, p \in Positions :
        Boundary /\ FactoryCreate(k, 1, p)

NextHistory ==
    \/ CreateRecorded
    \/ CountedTick
    \/ TickStep("task")

SpecHistory == InitHistory /\ [][NextHistory]_vars

\* The chain scenario: a Point and two Blocks with the same payload, created
\* with no tick in between, at one clock reading or at three, then ticked
\* HistoryTicks times each in any order, with identities and histories kept
HistoryTicks == 3

InitChain ==
    /\ counter = 3
    /\ nodes = <<1, 2, 3>>
    /\ \E point \in ScenarioIds :
           kind = [n \in Ids |-> IF n = point THEN "Point"
                                 ELSE IF n \in ScenarioIds THEN "Block" ELSE "none"]
    /\ data = [n \in Ids |-> IF n \in ScenarioIds THEN 1 ELSE 0]
    /\ pos \in [Ids -> Positions]
    /\ \A n \in Ids \ ScenarioIds : pos[n] = 0
    /\ neighbors = [n \in Ids |-> <<>>]
    /\ neighbors_by_similarity = [n \in Ids |-> <<>>]
    /\ attempts = [n \in Ids |-> 0]
    /\ permissive_mode = [n \in Ids |-> FALSE]
    /\ frame = [r \in Runners |-> IdleFrame]
    /\ sim_round = <<>>
    /\ ticks = [n \in Ids |-> 0]
    /\ log = NoLog
    /\ \E birth \in {[n \in ScenarioIds |-> 1], [n \in ScenarioIds |-> n]} :
           /\ addr = [n \in Ids |-> IF n \in ScenarioIds
                                     THEN _generate_addr(birth[n]) ELSE None]
           /\ now = birth[3]
    /\ history = [n \in Ids |-> <<>>]
    /\ gravity = [n \in Ids |-> 0]
    /\ velocity = [n \in Ids |-> 0]
    /\ stale = {}
    /\ recording = TRUE
    /\ attrs = [n \in Ids |-> Configured(kind[n])]
    /\ loop_running = FALSE
    /\ _event_loop = FALSE
    /\ _tasks = {}
    /\ tasks = <<>>
    /\ cancelled = {}
    /\ running = FALSE
    /\ response = <<>>

RecordedTick ==
    \E n \in Ids :
        /\ ticks[n] < HistoryTicks
        /\ TickBegin("task", n)
        /\ ticks' = [ticks EXCEPT ![n] = @ + 1]
        /\ UNCHANGED sim_round

NextChain ==
    \/ RecordedTick
    \/ TickStep("task")

SpecChain == InitChain /\ [][NextChain]_vars

\* The magnet scenario: the Sphere is created first, then the Blocks, all
\* with the same payload at the same place and with no event loop bound;
\* a harness then ticks each node once, in any order
InitMagnet ==
    /\ counter = BLOCK_MAX_DEGREE + 2
    /\ nodes = [i \in MagnetIds |-> i]
    /\ kind = [n \in MagnetIds |-> IF n = 1 THEN "Sphere" ELSE "Block"]
    /\ data = [n \in MagnetIds |-> 1]
    /\ pos = [n \in MagnetIds |-> 0]
    /\ neighbors = [n \in MagnetIds |-> <<>>]
    /\ neighbors_by_similarity = [n \in MagnetIds |-> <<>>]
    /\ attempts = [n \in MagnetIds |-> 0]
    /\ permissive_mode = [n \in MagnetIds |-> FALSE]
    /\ frame = [r \in Runners |-> IdleFrame]
    /\ sim_round = <<>>
    /\ ticks = [n \in MagnetIds |-> 0]
    /\ log = NoLog
    /\ addr = [n \in MagnetIds |-> None]
    /\ history = [n \in MagnetIds |-> <<>>]
    /\ gravity = [n \in MagnetIds |-> 0]
    /\ velocity = [n \in MagnetIds |-> 0]
    /\ now = 0
    /\ stale = {}
    /\ recording = FALSE
    /\ attrs = [n \in MagnetIds |-> Configured(kind[n])]
    /\ loop_running = FALSE
    /\ _event_loop = FALSE
    /\ _tasks = {}
    /\ tasks = <<>>
    /\ cancelled = {}
    /\ running = FALSE
    /\ response = <<>>

TickOnce ==
    \E n \in MagnetIds :
        /\ ticks[n] = 0
        /\ TickBegin("task", n)
        /\ ticks' = [ticks EXCEPT ![n] = 1]
        /\ UNCHANGED sim_round

NextMagnet ==
    \/ TickOnce
    \/ TickStep("task")

SpecMagnet == InitMagnet /\ [][NextMagnet]_vars

\* The eviction scenario: a Point and two Blocks at one place, one of the
\* Blocks with another payload, created in any order. Every node's task
\* loops for ever (tick, then sleep) on the one event loop, which runs the
\* ready tasks in turn: a node whose tick can start again and again, between
\* the ticks of the others, is ticked (strong fairness), and a tick begun
\* runs to its end
InitEvict ==
    /\ counter = 3
    /\ nodes = <<1, 2, 3>>
    /\ \E point, weak \in ScenarioIds :
           /\ point # weak
           /\ kind = [n \in Ids |-> IF n = point THEN "Point"
                                    ELSE IF n \in ScenarioIds THEN "Block"
                                    ELSE "none"]
           /\ data = [n \in Ids |-> IF n = weak THEN 3
                                    ELSE IF n \in ScenarioIds THEN 1 ELSE 0]
    /\ pos = [n \in Ids |-> 0]
    /\ neighbors = [n \in Ids |-> <<>>]
    /\ neighbors_by_similarity = [n \in Ids |-> <<>>]
    /\ attempts = [n \in Ids |-> 0]
    /\ permissive_mode = [n \in Ids |-> FALSE]
    /\ frame = [r \in Runners |-> IdleFrame]
    /\ sim_round = <<>>
    /\ ticks = [n \in Ids |-> 0]
    /\ log = NoLog
    /\ addr = [n \in Ids |-> None]
    /\ history = [n \in Ids |-> <<>>]
    /\ gravity = [n \in Ids |-> 0]
    /\ velocity = [n \in Ids |-> 0]
    /\ now = 0
    /\ stale = {}
    /\ recording = FALSE
    /\ attrs = [n \in Ids |-> Configured(kind[n])]
    /\ loop_running = FALSE
    /\ _event_loop = FALSE
    /\ _tasks = {}
    /\ tasks = <<>>
    /\ cancelled = {}
    /\ running = FALSE
    /\ response = <<>>

LoopTick(n) == TickBegin("task", n) /\ UNCHANGED <<sim_round, ticks>>

NextEvict ==
    \/ \E n \in ScenarioIds : LoopTick(n)
    \/ TickStep("task")

SpecEvict ==
    /\ InitEvict
    /\ [][NextEvict]_vars
    /\ \A n \in ScenarioIds : SF_vars(LoopTick(n))
    /\ WF_vars(TickStep("task"))

\* The scheduled factory: one event loop, bound to the factory by
\* set_event_loop at some point. The nodes are created by code that runs on
\* that loop (a coroutine) or outside it (loop_running), each run() task
\* ticks its node again and again (LoopTicks ticks per node are explored),
\* and cancel_all_tasks may be awaited between two ticks
LoopTicks == 1

InitTasks ==
    /\ counter = 0
    /\ nodes = <<>>
    /\ kind = [n \in Ids |-> "none"]
    /\ data = [n \in Ids |-> 0]
    /\ pos = [n \in Ids |-> 0]
    /\ neighbors = [n \in Ids |-> <<>>]
    /\ neighbors_by_similarity = [n \in Ids |-> <<>>]
    /\ attempts = [n \in Ids |-> 0]
    /\ permissive_mode = [n \in Ids |-> FALSE]
    /\ frame = [r \in Runners |-> IdleFrame]
    /\ sim_round = <<>>
    /\ ticks = [n \in Ids |-> 0]
    /\ log = NoLog
    /\ addr = [n \in Ids |-> None]
    /\ history = [n \in Ids |-> <<>>]
    /\ gravity = [n \in Ids |-> 0]
    /\ velocity = [n \in Ids |-> 0]
    /\ now = 0
    /\ stale = {}
    /\ recording = TRUE
    /\ attrs = [n \in Ids |-> Configured(kind[n])]
    /\ loop_running \in BOOLEAN
    /\ _event_loop = FALSE
    /\ _tasks = {}
    /\ tasks = <<>>
    /\ cancelled = {}
    /\ running = FALSE
    /\ response = <<>>

\* NeighborFactory.set_event_loop(loop)
set_event_loop ==
    /\ ~_event_loop
    /\ _event_loop' = TRUE
    /\ UNCHANGED <<counter, nodes, kind, data, pos, neighbors,
                   neighbors_by_similarity, attempts, permissive_mode, frame,
                   sim_round, ticks, log, ident, recording, attrs,
                   loop_running, _tasks, tasks, cancelled, running, response>>

CreateScheduled ==
    \E k \in {"Block", "Sphere"} :
        Boundary /\ create(k, 1, 0, NoOverrides)

\* One turn of the loop of run() in task t: a tick of the task's node
RunTick(t) ==
    /\ tasks[t].state = "running"
    /\ ticks[tasks[t].obj] < LoopTicks
    /\ TickBegin("task", tasks[t].obj)
    /\ ticks' = [ticks EXCEPT ![tasks[t].obj] = @ + 1]
    /\ UNCHANGED sim_round

\* await factory.cancel_all_tasks(): every task of _tasks is cancelled and
\* awaited; a task that is done leaves _tasks (its done callback)
cancel_all_tasks ==
    /\ Boundary
    /\ tasks' = [t \in DOMAIN tasks |->
                    IF t \in _tasks THEN [tasks[t] EXCEPT !.state = "cancelled"]
                    ELSE tasks[t]]
    /\ _tasks' = {}
    /\ cancelled' = Created
    /\ UNCHANGED <<counter, nodes, kind, data, pos, neighbors,
                   neighbors_by_similarity, attempts, permissive_mode, frame,
                   sim_round, ticks, log, ident, recording, attrs,
                   loop_running, _event_loop, running, response>>

NextTasks ==
    \/ set_event_loop
    \/ CreateScheduled
    \/ \E t \in DOMAIN tasks : RunTick(t)
    \/ TickStep("task")
    \/ cancel_all_tasks

SpecTasks == InitTasks /\ [][NextTasks]_vars

\* The API beside the simulation thread (main.py): the thread ticks the
\* three nodes of the Point scenario in passes, and on the event loop a
\* reader (list_nodes, get_simulation_status, a turn of websocket_nodes)
\* walks factory.nodes, taking each node's state in turn; nothing keeps the
\* thread from running between two of the reader's steps
Idle == [state |-> "idle", todo |-> <<>>, got |-> <<>>]

InitReaders ==
    /\ counter = 3
    /\ nodes = <<1, 2, 3>>
    /\ \E point \in ScenarioIds :
           kind = [n \in Ids |-> IF n = point THEN "Point"
                                 ELSE IF n \in ScenarioIds THEN "Block" ELSE "none"]
    /\ data = [n \in Ids |-> IF n \in ScenarioIds THEN 1 ELSE 0]
    /\ pos = [n \in Ids |-> 0]
    /\ neighbors = [n \in Ids |-> <<>>]
    /\ neighbors_by_similarity = [n \in Ids |-> <<>>]
    /\ attempts = [n \in Ids |-> 0]
    /\ permissive_mode = [n \in Ids |-> FALSE]
    /\ frame = [r \in Runners |-> IdleFrame]
    /\ sim_round = <<>>
    /\ ticks = [n \in Ids |-> 0]
    /\ log = NoLog
    /\ addr = [n \in Ids |-> None]
    /\ history = [n \in Ids |-> <<>>]
    /\ gravity = [n \in Ids |-> 0]
    /\ velocity = [n \in Ids |-> 0]
    /\ now = 0
    /\ stale = {}
    /\ recording = FALSE
    /\ attrs = [n \in Ids |-> Configured(kind[n])]
    /\ loop_running = TRUE
    /\ _event_loop = FALSE
    /\ _tasks = {}
    /\ tasks = <<>>
    /\ cancelled = {}
    /\ running = TRUE
    /\ response = Idle

\* _node_to_response(node), _node_packet(node): the fields of the node
\* that the link and degree properties speak of
_node_to_response(n) == [id |-> n, neighbors |-> neighbors[n]]

\* The reader's handler is called: for node in factory.nodes
list_nodes ==
    /\ response.state # "reading"
    /\ response' = [state |-> "reading", todo |-> nodes, got |-> <<>>]
    /\ UNCHANGED <<counter, nodes, kind, data, pos, neighbors,
                   neighbors_by_similarity, attempts, permissive_mode, frame,
                   sim_round, ticks, log, ident, recording, attrs,
                   loop_running, _event_loop, _tasks, tasks, cancelled, running>>

\* The next node of the comprehension; after the last the list is returned
ReadNode ==
    /\ response.state = "reading"
    /\ response' =
           IF response.todo = <<>>
           THEN [response EXCEPT !.state = "returned"]
           ELSE [response EXCEPT
                   !.todo = Tail(@),
                   !.got = Append(@, _node_to_response(Head(response.todo)))]
    /\ UNCHANGED <<counter, nodes, kind, data, pos, neighbors,
                   neighbors_by_similarity, attempts, permissive_mode, frame,
                   sim_round, ticks, log, ident, recording, attrs,
                   loop_running, _event_loop, _tasks, tasks, cancelled, running>>

NextReaders ==
    \/ ThreadPass
    \/ ThreadTick
    \/ TickStep("thread")
    \/ list_nodes
    \/ ReadNode

SpecReaders == InitReaders /\ [][NextReaders]_vars

\* The overrides: OverrideNodes nodes are created through create_node, each
\* with one of a few sets of overrides: none; an anchor with a velocity and
\* a gravity of 25; a movable node with a gravity of 25; a node with its
\* own threshold (0.5), radius, window, tick interval and attempts. The
\* nodes are then ticked by a harness, TicksPerNode times each
OverrideNodes == 2

Overrides ==
    {NoOverrides,
     [NoOverrides EXCEPT !.given = {"is_anchor", "velocity", "gravity"},
                         !.is_anchor = TRUE,
                         !.velocity = GravityUnit,
                         !.gravity = (GRAVITY_MAX + 5) * GravityUnit],
     [NoOverrides EXCEPT !.given = {"is_anchor", "gravity"},
                         !.is_anchor = FALSE,
                         !.gravity = (GRAVITY_MAX + 5) * GravityUnit],
     [NoOverrides EXCEPT !.given = {"connection_threshold", "influence_radius",
                                    "STABILITY_WINDOW", "tick_interval",
                                    "attempts"},
                         !.connection_threshold = 500,
                         !.influence_radius = 4,
                         !.STABILITY_WINDOW = 5,
                         !.tick_interval = 1,
                         !.attempts = 2]}

InitOverrides ==
    /\ counter = 0
    /\ nodes = <<>>
    /\ kind = [n \in Ids |-> "none"]
    /\ data = [n \in Ids |-> 0]
    /\ pos = [n \in Ids |-> 0]
    /\ neighbors = [n \in Ids |-> <<>>]
    /\ neighbors_by_similarity = [n \in Ids |-> <<>>]
    /\ attempts = [n \in Ids |-> 0]
    /\ permissive_mode = [n \in Ids |-> FALSE]
    /\ frame = [r \in Runners |-> IdleFrame]
    /\ sim_round = <<>>
    /\ ticks = [n \in Ids |-> 0]
    /\ log = NoLog
    /\ addr = [n \in Ids |-> None]
    /\ history = [n \in Ids |-> <<>>]
    /\ gravity = [n \in Ids |-> 0]
    /\ velocity = [n \in Ids |-> 0]
    /\ now = 0
    /\ stale = {}
    /\ recording = TRUE
    /\ attrs = [n \in Ids |-> Configured(kind[n])]
    /\ loop_running = FALSE
    /\ _event_loop = FALSE
    /\ _tasks = {}
    /\ tasks = <<>>
    /\ cancelled = {}
    /\ running = FALSE
    /\ response = <<>>

\* create_node(req): factory.create(cls, data, pos, **overrides)
create_node ==
    \E k \in {"Block", "Sphere"}, p \in Positions, ov \in Overrides :
        /\ Boundary
        /\ counter < OverrideNodes
        /\ create(k, 1, p, ov)

NextOverrides ==
    \/ create_node
    \/ CountedTick
    \/ TickStep("task")

SpecOverrides == InitOverrides /\ [][NextOverrides]_vars

\* The simulation thread with faulty ticks (main.py): SimulationLoop ticks
\* the three nodes of the Point scenario in passes; a tick may raise an
\* exception at any of its steps, leaving what it has written so far, and
\* stop() may be called at any time. The thread is scheduled again and
\* again (weak fairness on its steps); raising and stopping are not forced
InitFaulty ==
    /\ counter = 3
    /\ nodes = <<1, 2, 3>>
    /\ \E point \in ScenarioIds :
           kind = [n \in Ids |-> IF n = point THEN "Point"
                                 ELSE IF n \in ScenarioIds THEN "Block" ELSE "none"]
    /\ data = [n \in Ids |-> IF n \in ScenarioIds THEN 1 ELSE 0]
    /\ pos = [n \in Ids |-> 0]
    /\ neighbors = [n \in Ids |-> <<>>]
    /\ neighbors_by_similarity = [n \in Ids |-> <<>>]
    /\ attempts = [n \in Ids |-> 0]
    /\ permissive_mode = [n \in Ids |-> FALSE]
    /\ frame = [r \in Runners |-> IdleFrame]
    /\ sim_round = <<>>
    /\ ticks = [n \in Ids |-> 0]
    /\ log = NoLog
    /\ addr = [n \in Ids |-> None]
    /\ history = [n \in Ids |-> <<>>]
    /\ gravity = [n \in Ids |-> 0]
    /\ velocity = [n \in Ids |-> 0]
    /\ now = 0
    /\ stale = {}
    /\ recording = FALSE
    /\ attrs = [n \in Ids |-> Configured(kind[n])]
    /\ loop_running = FALSE
    /\ _event_loop = FALSE
    /\ _tasks = {}
    /\ tasks = <<>>
    /\ cancelled = {}
    /\ running = TRUE
    /\ response = <<>>

\* as if the exception left the for loop: the outer handler logs it and
\* _run_loop returns
tick_failed_ends_loop(f) == [IdleFrame EXCEPT !.pc = "ended"]

\* except Exception as e: logger.exception(...), inside the for loop: the
\* tick is abandoned and the loop goes on
tick_failed(f) == IdleFrame

\* tick(obj=node, ...) raises at the step it has reached
TickRaises ==
    /\ frame["thread"].obj # 0
    /\ frame' = [frame EXCEPT !["thread"] = tick_failed(frame["thread"])]
    /\ UNCHANGED <<counter, nodes, kind, data, pos, neighbors,
                   neighbors_by_similarity, attempts, permissive_mode,
                   sim_round, ticks, log, ident, recording, attrs, sched>>

\* SimulationLoop.stop(): the flag that the loop reads before each pass
stop ==
    /\ running
    /\ running' = FALSE
    /\ UNCHANGED <<counter, nodes, kind, data, pos, neighbors,
                   neighbors_by_similarity, attempts, permissive_mode, frame,
                   sim_round, ticks, log, ident, recording, attrs,
                   loop_running, _event_loop, _tasks, tasks, cancelled, response>>

NextFaulty ==
    \/ ThreadPass
    \/ ThreadTick
    \/ TickStep("thread")
    \/ TickRaises
    \/ stop

SpecFaulty ==
    /\ InitFaulty
    /\ [][NextFaulty]_vars
    /\ WF_vars(ThreadPass)
    /\ WF_vars(ThreadTick)
    /\ WF_vars(TickStep("thread"))

\* The hub scenario (main.py): a Sphere, created with attempts seeded to 0
\* or to MaxAttempts - 1, and two Blocks with the same payload at one
\* place. The nodes' run() tasks on the event loop and the SimulationLoop
\* thread both tick them, so that add_neighbor on the Sphere can fail (the
\* other runner has linked it in between) and count against the Sphere
InitHub ==
    /\ counter = 3
    /\ nodes = <<1, 2, 3>>
    /\ \E hub \in ScenarioIds :
           /\ kind = [n \in Ids |-> IF n = hub THEN "Sphere"
                                    ELSE IF n \in ScenarioIds THEN "Block"
                                    ELSE "none"]
           /\ \E seed \in {0, MaxAttempts - 1} :
                  attempts = [n \in Ids |-> IF n = hub THEN seed ELSE 0]
    /\ data = [n \in Ids |-> IF n \in ScenarioIds THEN 1 ELSE 0]
    /\ pos = [n \in Ids |-> 0]
    /\ neighbors = [n \in Ids |-> <<>>]
    /\ neighbors_by_similarity = [n \in Ids |-> <<>>]
    /\ permissive_mode = [n \in Ids |-> FALSE]
    /\ frame = [r \in Runners |-> IdleFrame]
    /\ sim_round = <<>>
    /\ ticks = [n \in Ids |-> 0]
    /\ log = NoLog
    /\ addr = [n \in Ids |-> None]
    /\ history = [n \in Ids |-> <<>>]
    /\ gravity = [n \in Ids |-> 0]
    /\ velocity = [n \in Ids |-> 0]
    /\ now = 0
    /\ stale = {}
    /\ recording = FALSE
    /\ attrs = [n \in Ids |-> Configured(kind[n])]
    /\ loop_running = FALSE
    /\ _event_loop = FALSE
    /\ _tasks = {}
    /\ tasks = <<>>
    /\ cancelled = {}
    /\ running = TRUE
    /\ response = <<>>

NextHub ==
    \/ TaskTick
    \/ TickStep("task")
    \/ ThreadPass
    \/ ThreadTick
    \/ TickStep("thread")

SpecHub == InitHub /\ [][NextHub]_vars

\* add_neighbor called on its own: three nodes of any kinds, and calls
\* add_neighbor(obj, other, score=score) for any two of them, the same node
\* twice included, with a score of 0.4 or of 1.0
Scores == {400, 1000}

InitAdd ==
    /\ counter = 3
    /\ nodes = <<1, 2, 3>>
    /\ \E kinds \in [ScenarioIds -> Kinds] :
           kind = [n \in Ids |-> IF n \in ScenarioIds THEN kinds[n] ELSE "none"]
    /\ data = [n \in Ids |-> IF n \in ScenarioIds THEN 1 ELSE 0]
    /\ pos = [n \in Ids |-> 0]
    /\ neighbors = [n \in Ids |-> <<>>]
    /\ neighbors_by_similarity = [n \in Ids |-> <<>>]
    /\ attempts = [n \in Ids |-> 0]
    /\ permissive_mode = [n \in Ids |-> FALSE]
    /\ frame = [r \in Runners |-> IdleFrame]
    /\ sim_round = <<>>
    /\ ticks = [n \in Ids |-> 0]
    /\ log = NoLog
    /\ addr = [n \in Ids |-> None]
    /\ history = [n \in Ids |-> <<>>]
    /\ gravity = [n \in Ids |-> 0]
    /\ velocity = [n \in Ids |-> 0]
    /\ now = 0
    /\ stale = {}
    /\ recording = FALSE
    /\ attrs = [n \in Ids |-> Configured(kind[n])]
    /\ loop_running = FALSE
    /\ _event_loop = FALSE
    /\ _tasks = {}
    /\ tasks = <<>>
    /\ cancelled = {}
    /\ running = FALSE
    /\ response = <<>>

AddNeighbor ==
    \E obj \in Created, other \in Created, score \in Scores :
        /\ Commit(add_neighbor(World, obj, other, score).w, log)
        /\ UNCHANGED <<counter, nodes, kind, data, pos, frame, sim_round, ticks>>
        /\ UNCHANGED <<ident, recording, attrs, sched>>

NextAdd == AddNeighbor

SpecAdd == InitAdd /\ [][NextAdd]_vars

\* The steady state: two nodes, Blocks or Spheres, at one position, created
\* and then ticked for ever, each by its own run() task on the one event
\* loop (strong fairness, as above). Nothing moves: a Sphere is an anchor and
\* a Block has its only neighbor where it is itself.
\* To keep the states finite, a digest made from a neighbor's digest is kept
\* as the length, modulo Generations, of the chain of digests it was made
\* from, and a history as its last entry, the only one that a tick of a node
\* that does not move depends on. Between two ticks of a node its neighbor
\* re-hashes at most once, which makes its chain longer by 2: the digests
\* that differ are kept different
Generations == 3

\* The chain length that a kept digest stands for
Generation(a) == IF a # None /\ a[1] = "chain" THEN a[5] ELSE 0

Fold(a) ==
    IF a # None /\ a[1] = "state"
    THEN <<"chain", a[2], a[3], a[4],
           (1 + SumSeq([i \in 1..Len(a[5]) |-> Generation(a[5][i])]))
               % Generations>>
    ELSE a

Kept(h) ==
    IF h = <<>> THEN h ELSE <<[h[Len(h)] EXCEPT !.addr = Fold(@)]>>

InitQuiet ==
    /\ counter = 2
    /\ nodes = <<1, 2>>
    /\ \E kinds \in [1..2 -> {"Block", "Sphere"}] :
           kind = [n \in Ids |-> IF n \in 1..2 THEN kinds[n] ELSE "none"]
    /\ \E payloads \in [1..2 -> Payloads] :
           data = [n \in Ids |-> IF n \in 1..2 THEN payloads[n] ELSE 0]
    /\ pos = [n \in Ids |-> 0]
    /\ neighbors = [n \in Ids |-> <<>>]
    /\ neighbors_by_similarity = [n \in Ids |-> <<>>]
    /\ attempts = [n \in Ids |-> 0]
    /\ permissive_mode = [n \in Ids |-> FALSE]
    /\ frame = [r \in Runners |-> IdleFrame]
    /\ sim_round = <<>>
    /\ ticks = [n \in Ids |-> 0]
    /\ log = NoLog
    /\ \E birth \in {[n \in 1..2 |-> 1], [n \in 1..2 |-> n]} :
           /\ addr = [n \in Ids |-> IF n \in 1..2
                                     THEN _generate_addr(birth[n]) ELSE None]
           /\ now = birth[2]
    /\ history = [n \in Ids |-> <<>>]
    /\ gravity = [n \in Ids |-> 0]
    /\ velocity = [n \in Ids |-> 0]
    /\ stale = {}
    /\ recording = TRUE
    /\ attrs = [n \in Ids |-> Configured(kind[n])]
    /\ loop_running = FALSE
    /\ _event_loop = FALSE
    /\ _tasks = {}
    /\ tasks = <<>>
    /\ cancelled = {}
    /\ running = FALSE
    /\ response = <<>>

\* tick(obj) up to the candidate list, as TickBegin, with the digests and
\* the histories kept as said
QuietTick(n) ==
    /\ frame["task"].pc = "idle"
    /\ n \in Created
    /\ frame' = [frame EXCEPT !["task"] =
                    [IdleFrame EXCEPT !.pc = "discover", !.obj = n, !.cands = nodes]]
    /\ \E all_differ \in Differ :
           LET w == record_history(IdentityWorld, n, all_differ)
           IN  /\ addr' = [m \in Ids |-> Fold(w.addr[m])]
               /\ history' = [m \in Ids |-> Kept(w.history[m])]
    /\ stale' = (stale \ {n}) \cup
                 (IF addr'[n] # addr[n] THEN Range(neighbors[n]) ELSE {})
    /\ UNCHANGED <<counter, nodes, kind, data, pos, neighbors,
                   neighbors_by_similarity, attempts, permissive_mode,
                   sim_round, ticks, log,
                   gravity, velocity, now, recording, attrs, sched>>

NextQuiet ==
    \/ \E n \in Ids : QuietTick(n)
    \/ TickStep("task")

SpecQuiet ==
    /\ InitQuiet
    /\ [][NextQuiet]_vars
    /\ \A n \in 1..2 : SF_vars(QuietTick(n))
    /\ WF_vars(TickStep("task"))

\* Constant scores: one Point or more, created first, and Blocks, all with
\* one payload, each at a place of its own choice and created as an anchor
\* (is_anchor=True), none linked and none created later. Every node's run() task ticks it for ever on the one
\* event loop (strong fairness, as above)
InitAnchored ==
    /\ counter = MaxNodes + 1
    /\ nodes = [n \in AnchoredIds |-> n]
    /\ \E points \in 1..(MaxNodes + 1) :
           kind = [n \in AnchoredIds |-> IF n <= points THEN "Point" ELSE "Block"]
    /\ data = [n \in AnchoredIds |-> 1]
    /\ pos \in [AnchoredIds -> Positions]
    /\ neighbors = [n \in AnchoredIds |-> <<>>]
    /\ neighbors_by_similarity = [n \in AnchoredIds |-> <<>>]
    /\ attempts = [n \in AnchoredIds |-> 0]
    /\ permissive_mode = [n \in AnchoredIds |-> FALSE]
    /\ frame = [r \in Runners |-> IdleFrame]
    /\ sim_round = <<>>
    /\ ticks = [n \in AnchoredIds |-> 0]
    /\ log = EmptyLog
    /\ addr = [n \in AnchoredIds |-> None]
    /\ history = [n \in AnchoredIds |-> <<>>]
    /\ gravity = [n \in AnchoredIds |-> 0]
    /\ velocity = [n \in AnchoredIds |-> 0]
    /\ now = 0
    /\ stale = {}
    /\ recording = FALSE
    /\ attrs = [n \in AnchoredIds |->
                   __post_init__(kind[n],
                                 [class_defaults(kind[n]) EXCEPT !.is_anchor = TRUE])]
    /\ loop_running = FALSE
    /\ _event_loop = FALSE
    /\ _tasks = {}
    /\ tasks = <<>>
    /\ cancelled = {}
    /\ running = FALSE
    /\ response = <<>>

NextAnchored ==
    \/ \E n \in AnchoredIds : LoopTick(n)
    \/ TickStep("task")

SpecAnchored ==
    /\ InitAnchored
    /\ [][NextAnchored]_vars
    /\ \A n \in AnchoredIds : SF_vars(LoopTick(n))
    /\ WF_vars(TickStep("task"))

\* Calls of create that raise: create is called with a class and overrides
\* of the caller's choosing, among them a class that is no Block, Point or
\* Sphere and an override the node's construction fails on. response
\* collects the exceptions the callers have received, MaxRaised at most;
\* the nodes are ticked by a harness, TicksPerNode times each
MaxRaised == 2

\* What create may be handed as cls: the three kinds, and the base class
Classes == Kinds \cup {"NeighborBase"}

\* _token = None among the overrides: init_kwargs.update(overrides) replaces
\* the factory's token, and __post_init__ raises RuntimeError
WithoutToken == [NoOverrides EXCEPT !.given = {"_token"}]

CallOverrides ==
    {NoOverrides,
     [NoOverrides EXCEPT !.given = {"is_anchor"}, !.is_anchor = TRUE],
     WithoutToken}

\* cls(**init_kwargs) returns a node
constructs(ov) == "_token" \notin ov.given

\* NeighborFactory.create(cls, data=, pos=, **overrides), with the calls
\* that raise: the check of cls comes first; the id is taken before the
\* node is constructed, and nothing is appended when construction raises
create_call(cls, d, p, ov) ==
    IF cls \notin Kinds
    THEN /\ Len(response) < MaxRaised
         /\ response' = Append(response, "TypeError")
         /\ UNCHANGED <<counter, nodes, kind, data, pos, neighbors,
                        neighbors_by_similarity, attempts, permissive_mode,
                        frame, sim_round, ticks, log, ident, attrs,
                        recording, loop_running, _event_loop, _tasks, tasks,
                        cancelled, running>>
    ELSE IF ~constructs(ov)
         THEN /\ Len(response) < MaxRaised
              /\ counter < OverrideNodes
              /\ counter' = _next_id(counter)
              \* birth = datetime.now() is read before the constructor runs
              /\ IF recording
                 THEN \E birth \in {now, now + 1} : now' = birth
                 ELSE UNCHANGED now
              /\ response' = Append(response, "RuntimeError")
              /\ UNCHANGED <<nodes, kind, data, pos, neighbors,
                             neighbors_by_similarity, attempts,
                             permissive_mode, frame, sim_round, ticks, log,
                             addr, history, gravity, velocity, stale, attrs,
                             recording, loop_running, _event_loop, _tasks,
                             tasks, cancelled, running>>
         ELSE counter < OverrideNodes /\ create(cls, d, p, ov)

CreateCall ==
    \E cls \in Classes, p \in Positions, ov \in CallOverrides :
        Boundary /\ create_call(cls, 1, p, ov)

NextRaising ==
    \/ CreateCall
    \/ CountedTick
    \/ TickStep("task")

SpecRaising == InitOverrides /\ [][NextRaising]_vars

\* ------------------------------------------------------------ properties
Linked(a, b) == b \in Range(neighbors[a])
IndexIds(n) == [i \in 1..Len(neighbors_by_similarity[n]) |->
                   neighbors_by_similarity[n][i][2]]
Busy == {r \in Runners : frame[r].pc # "idle"}

\* C1: at every tick boundary, after any sequence of ticks of any nodes in
\* any order, B is in A.neighbors if and only if A is in B.neighbors
C1_SymmetricAtBoundary ==
    Boundary => \A a, b \in Ids : Linked(a, b) <=> Linked(b, a)

\* a tick that evicted a neighbor, failed and restored it has ended, and
\* links exist
C1_Witness ==
    /\ Boundary
    /\ log.restored # {}
    /\ \E a, b \in Created : a # b /\ Linked(a, b) /\ Linked(b, a)

\* C2: at every tick boundary a node has at most max_degree neighbors
\* (6 for a Block, 1 for a Point, no bound for a Sphere)
C2_DegreeBound ==
    Boundary => \A n \in Created : Len(neighbors[n]) <= degree_limit(n)

\* a saturated Point has swapped its neighbor for a better one in the tick
\* that just ended
C2_Witness ==
    /\ Boundary
    /\ \E n \in Created :
          /\ kind[n] = "Point"
          /\ n \in log.evicted /\ n \in log.admitted
          /\ Len(neighbors[n]) = POINT_MAX_DEGREE

\* C3: when add(self, c) or add(c, self) fails, the neighbor lists and the
\* similarity indexes of self, of c and of every evicted neighbor are equal
\* to their values before the step for c began
C3_RollbackComplete ==
    [][\A r \in Runners :
          LET f == frame[r]
              failed == \/ f.pc = "add_self"
                           /\ ~add_neighbor(World, f.obj, f.cand, f.score).ok
                        \/ f.pc = "add_cand"
                           /\ ~add_neighbor(World, f.cand, f.obj, f.score).ok
              touched == {f.obj, f.cand}
                         \cup (IF f.evicted_self = None THEN {} ELSE {f.evicted_self[2]})
                         \cup (IF f.evicted_cand = None THEN {} ELSE {f.evicted_cand[2]})
          IN  (failed /\ frame'[r] # f)
              => \A n \in touched :
                    /\ neighbors'[n] = f.pre[1][n]
                    /\ neighbors_by_similarity'[n] = f.pre[2][n]]_vars

\* C4: when the reciprocal add(c, self) fails because c is saturated,
\* c.attempts after the step is its value before the step plus exactly 1
C4_ReciprocalFailureCountsOnce ==
    [][\A r \in Runners :
          LET f == frame[r]
          IN  (/\ f.pc = "add_cand"
               /\ frame'[r] # f
               /\ ~Linked(f.cand, f.obj)
               /\ Len(neighbors[f.cand]) >= degree_limit(f.cand))
              => attempts'[f.cand] = attempts[f.cand] + 1]_vars

\* C5: ticks are mutually atomic in every way the code runs them: no two
\* ticks, by the event loop's tasks or by the SimulationLoop thread, are in
\* progress at the same time
C5_TicksMutuallyAtomic == Cardinality(Busy) <= 1

\* C6: at every tick boundary neighbors_by_similarity has exactly one entry
\* per neighbor and is sorted ascending by score
C6_IndexMatchesNeighbors ==
    Boundary =>
        \A n \in Ids :
            /\ Len(neighbors_by_similarity[n]) = Len(neighbors[n])
            /\ Range(IndexIds(n)) = Range(neighbors[n])
            /\ \A i, j \in 1..Len(neighbors_by_similarity[n]) :
                  i < j => /\ IndexIds(n)[i] # IndexIds(n)[j]
                           /\ neighbors_by_similarity[n][i][1]
                                  <= neighbors_by_similarity[n][j][1]

\* a node's neighbor admitted first has the higher score, so that the index
\* holds it after the one admitted later
C6_Witness ==
    /\ Boundary
    /\ \E n \in Created :
          /\ Len(neighbors[n]) >= 2
          /\ neighbors_by_similarity[n][1][1] < neighbors_by_similarity[n][2][1]
          /\ neighbors_by_similarity[n][2][2] = neighbors[n][1]

\* C7: in every state a node is never its own neighbor and no node is
\* twice in a neighbor list
C7_NoSelfNoDuplicates ==
    \A n \in Ids :
        /\ ~Linked(n, n)
        /\ \A i, j \in 1..Len(neighbors[n]) :
              i # j => neighbors[n][i] # neighbors[n][j]

\* a node that has two neighbors has gained one in the tick in progress,
\* whose candidates include itself and the neighbor it had
C7_Witness ==
    \E n \in log.admitted :
        /\ Len(neighbors[n]) = 2
        /\ frame["task"].obj = n
        /\ frame["task"].pc = "gravity"

\* C8 (as stated): a node that admitted a neighbor has attempts = 0 and
\* permissive_mode false at the tick boundary that follows the admission
C8_ResetHoldsAtBoundary ==
    Boundary => \A n \in log.admitted : attempts[n] = 0 /\ ~permissive_mode[n]

\* C8 (amended): a node that gains a neighbor in a step has attempts = 0 and
\* permissive_mode false right after that step
C8_ResetOnAdmission ==
    [][\A n \in Ids :
          ~(Range(neighbors'[n]) \subseteq Range(neighbors[n]))
          => attempts'[n] = 0 /\ ~permissive_mode'[n]]_vars

\* a permissive node has evicted its weakest neighbor and admitted the
\* candidate: its attempts are back to 0 and it is permissive no more
C8_Witness ==
    \E r \in Runners :
        /\ frame[r].pc = "add_cand"
        /\ frame[r].evicted_self # None
        /\ Linked(frame[r].obj, frame[r].cand)
        /\ attempts[frame[r].obj] = 0
        /\ ~permissive_mode[frame[r].obj]

\* C9: in every state, permissive_mode(N) implies that N's max_degree is
\* finite and attempts(N) >= 2 * max_degree(N)
C9_PermissiveOnlyPastThreshold ==
    \A n \in Ids :
        permissive_mode[n] =>
            /\ degree_limit(n) # Infinity
            /\ attempts[n] >= 2 * degree_limit(n)

\* a node is permissive
C9_Witness ==
    \E n \in Created : permissive_mode[n] /\ attempts[n] > 2 * degree_limit(n)

\* The Point scenario, once every node has ticked twice
TickedTwice == Boundary /\ \A n \in ScenarioIds : ticks[n] >= 2
ThePoint == CHOOSE n \in ScenarioIds : kind[n] = "Point"

\* C10 (as stated): in the Point scenario, after every node has ticked
\* twice, the Point has exactly one neighbor and the Block that is not
\* linked to the Point has attempts >= 1
C10_UnlinkedBlockCounted ==
    TickedTwice =>
        /\ Len(neighbors[ThePoint]) = 1
        /\ \A b \in ScenarioIds \ {ThePoint} :
              ~Linked(b, ThePoint) => attempts[b] >= 1

\* C10 (amended): in the Point scenario, after every node has ticked twice,
\* the Point has exactly one neighbor and the Block that is not linked to
\* the Point has attempts = 0: a refusal is counted on the node that is
\* full, the Point, never on the Block that asked
C10_RefusalsCountedOnPoint ==
    TickedTwice =>
        /\ Len(neighbors[ThePoint]) = 1
        /\ \A b \in ScenarioIds \ {ThePoint} :
              ~Linked(b, ThePoint) => attempts[b] = 0

\* every node has ticked twice, one Block is left without the Point, and
\* the Point has counted refusals
C10_Witness ==
    /\ TickedTwice
    /\ \E b, c \in ScenarioIds \ {ThePoint} :
          b # c /\ ~Linked(b, ThePoint) /\ Linked(ThePoint, c)
    /\ attempts[ThePoint] >= 2

C20_DistinctAddrs ==
    \A a, b \in Created : a # b => addr[a] # addr[b]

\* C14: right after create returns a node, before any tick of the node, its
\* history holds exactly one entry, the initial snapshot with idx 0
C14_InitialSnapshotAtCreate ==
    \A n \in Created :
        ticks[n] = 0 => Len(history[n]) = 1 /\ history[n][1].idx = 0

\* A snapshot without the connected event that discovery notes in it
Core(e) == [e EXCEPT !.neighbor_event = None]

\* C15: a node's history only grows by appending (no snapshot is removed,
\* moved or rewritten), and the idx of every entry is its position in the
\* history, counted from 0
C15_HistoryAppendOnly ==
    /\ [](\A n \in Ids : \A i \in 1..Len(history[n]) : history[n][i].idx = i - 1)
    /\ [][\A n \in Ids :
              /\ Len(history'[n]) >= Len(history[n])
              /\ \A i \in 1..Len(history[n]) :
                    Core(history'[n][i]) = Core(history[n][i])]_vars

\* a node has three snapshots, the first with a connected event noted in it
C15_Witness ==
    \E n \in Created :
        /\ Len(history[n]) = 3
        /\ history[n][1].neighbor_event # None

\* C16: record_history called twice on a node with nothing changed in
\* between appends one entry in all when the history was empty before the
\* first call, and the second call appends nothing
C16_SnapshotIdempotent ==
    \A n \in Created : \A d \in Differ :
        LET w1 == record_history(IdentityWorld, n, d)
            w2 == record_history(w1, n, d)
        IN  /\ history[n] = <<>> => Len(w2.history[n]) = 1
            /\ w2 = w1

\* one linked node has no snapshot yet, and another has changed since its
\* last snapshot, so that the first of the two calls appends
C16_Witness ==
    \E n, m \in Created :
        /\ history[n] = <<>> /\ neighbors[n] # <<>>
        /\ Len(history[m]) = 1
        /\ \E d \in Differ : _has_changed(IdentityWorld, m, d)

\* The addrs of the neighbors a snapshot lists, in the order of their ids
SortedNeighborAddrs(e) ==
    LET ids == SortById([i \in 1..Len(e.neighbors) |-> e.neighbors[i][1]])
    IN  [i \in 1..Len(ids) |->
            (CHOOSE t \in Range(e.neighbors) : t[1] = ids[i])[3]]

\* What update_addr hashes, as a snapshot of node n holds it
Hashed(n, e) == <<n, e.data, e.pos, SortedNeighborAddrs(e)>>

\* C17: between two consecutive snapshots of a node its addr differs if and
\* only if its payload, its pos, its id or the id-sorted list of its
\* neighbors' addrs differs
C17_AddrTracksContent ==
    \A n \in Created : \A i \in 1..(Len(history[n]) - 1) :
        (history[n][i + 1].addr # history[n][i].addr)
            <=> (Hashed(n, history[n][i + 1]) # Hashed(n, history[n][i]))

\* C17, amended: between two consecutive snapshots of a node its addr
\* differs if and only if the earlier one is the first snapshot, whose addr
\* is the digest of the creation time, or the payload, the pos, the id or
\* the id-sorted list of the neighbors' addrs differs
C17_AddrTracksContentAfterFirst ==
    \A n \in Created : \A i \in 1..(Len(history[n]) - 1) :
        (history[n][i + 1].addr # history[n][i].addr)
            <=> \/ i = 1
                \/ Hashed(n, history[n][i + 1]) # Hashed(n, history[n][i])

\* one node's second and third snapshot differ in addr, another's do not
C17_Witness ==
    \E n, m \in Created :
        /\ Len(history[n]) = 3 /\ history[n][3].addr # history[n][2].addr
        /\ Len(history[m]) = 3 /\ history[m][3].addr = history[m][2].addr

\* C18: once the addr of a node has changed, the next record_history of
\* each node that was its neighbor then appends a snapshot, and with it the
\* neighbor's addr changes
C18_ChainPropagates ==
    [][\A b \in stale :
          ticks'[b] # ticks[b] =>
              /\ Len(history'[b]) = Len(history[b]) + 1
              /\ addr'[b] # addr[b]]_vars

\* A runner is about to look at the next candidate of its discovery pass
AtCandidate(r) == frame[r].pc = "discover" /\ frame[r].cands # <<>>

TickedOnce == Boundary /\ \A n \in MagnetIds : ticks[n] = 1
TheSphere == CHOOSE n \in MagnetIds : kind[n] = "Sphere"
Blocks == MagnetIds \ {TheSphere}

\* C11 (as stated): in the magnet scenario, after every node has ticked
\* once, in whatever order, every Block has the Sphere among its neighbors
\* and the Sphere has every Block among its neighbors
C11_EveryBlockOnSphere ==
    TickedOnce =>
        \A b \in Blocks : Linked(b, TheSphere) /\ Linked(TheSphere, b)

\* C11, amended: in the magnet scenario, after every node has ticked once,
\* in whatever order, the Sphere and a Block list each other or neither
\* does, and every Block that has not the Sphere among its neighbors is
\* saturated (the Blocks that ticked before it and before the Sphere have
\* filled it)
C11_EveryUnsaturatedBlockOnSphere ==
    TickedOnce =>
        /\ \A b \in Blocks : Linked(b, TheSphere) <=> Linked(TheSphere, b)
        /\ \A b \in Blocks :
              ~Linked(b, TheSphere) => Len(neighbors[b]) = BLOCK_MAX_DEGREE

\* every node has ticked and one Block is off the Sphere
C11_Witness ==
    /\ TickedOnce
    /\ \E b \in Blocks : ~Linked(b, TheSphere)
    /\ Len(neighbors[TheSphere]) = BLOCK_MAX_DEGREE

\* Node n is saturated with a finite limit, and c is a candidate it is not
\* linked with, that has room, and whose score passes n's threshold and is
\* above the lowest score n has stored
Qualifies(n, c) ==
    /\ n \in Created /\ c \in Created /\ n # c
    /\ degree_limit(n) # Infinity
    /\ ~can_accept_more_neighbors(World, n)
    /\ ~Linked(n, c)
    /\ can_accept_more_neighbors(World, c)
    /\ should_connect(n, c).ok
    /\ should_connect(n, c).score > lowest_similarity_neighbor(World, n)[1]

\* Node n is at the start of a tick of its own
Starts(n) ==
    /\ frame["task"].pc = "discover"
    /\ frame["task"].obj = n
    /\ frame["task"].cands = nodes

\* Node n is at the end of the discovery of a tick of its own
Ends(n) == frame["task"].pc = "gravity" /\ frame["task"].obj = n

Loops(n) == {t \in DOMAIN tasks : tasks[t].obj = n /\ tasks[t].state = "running"}

\* C22: a node created through the factory while an event loop is bound is
\* ticked by one tick loop only: beside the task the factory keeps for it
\* in _tasks, no other run() task of the same node is running
C22_OneLoopPerNode ==
    \A t \in _tasks : Loops(tasks[t].obj) = {t}

\* C21: once cancel_all_tasks has returned, no tick loop of a node created
\* before the call is still running, and no step appends to the history of
\* such a node
C21_CancelStopsEveryLoop ==
    /\ [](\A n \in cancelled : Loops(n) = {})
    /\ [][\A n \in cancelled : history'[n] = history[n]]_vars

\* C23: the node states that a reader returns are not taken in the middle
\* of a tick: among them the links are symmetric and no node has more
\* neighbors than its degree limit
C23_ReadersSeeWholeTicks ==
    response.state = "returned" =>
        /\ \A i, j \in DOMAIN response.got :
               (response.got[j].id \in Range(response.got[i].neighbors))
               <=> (response.got[i].id \in Range(response.got[j].neighbors))
        /\ \A i \in DOMAIN response.got :
               Len(response.got[i].neighbors) <= degree_limit(response.got[i].id)

\* C24: the pos and the velocity of a node with is_anchor = true are the
\* ones it was created with, for ever: no step of a tick, of the node itself
\* or of another node, changes either
C24_AnchorsStay ==
    [][\A n \in Created :
           attrs[n].is_anchor => pos'[n] = pos[n] /\ velocity'[n] = velocity[n]]_vars

\* an anchor created with a velocity, linked to a node at another place, at
\* the end of a tick of its own
C24_Witness ==
    \E n \in Created :
        /\ attrs[n].is_anchor
        /\ velocity[n] # 0
        /\ ticks[n] >= 1
        /\ frame["task"].pc = "idle"
        /\ local_gravity_vector(n) # 0

\* C25: the gravity of every node created through create, with any of the
\* permitted overrides, lies in [0, 20] in every reachable state
C25_GravityInRange ==
    \A n \in Created : 0 <= gravity[n] /\ gravity[n] <= GRAVITY_MAX * GravityUnit

\* The attributes of node n after the step
After(n) ==
    [connection_threshold |-> attrs'[n].connection_threshold,
     influence_radius |-> attrs'[n].influence_radius,
     attempts |-> attempts'[n],
     velocity |-> velocity'[n],
     gravity |-> gravity'[n],
     is_anchor |-> attrs'[n].is_anchor,
     STABILITY_WINDOW |-> attrs'[n].STABILITY_WINDOW,
     tick_interval |-> attrs'[n].tick_interval]

\* C27: after create(kind, overrides) every attribute named in the
\* overrides holds the value given there, not the default of the kind
C27_OverridesHold ==
    [][\A k \in Kinds, p \in Positions, ov \in Overrides :
           create(k, 1, p, ov) =>
               \A name \in ov.given : After(counter')[name] = ov[name]]_vars

\* The thread has just begun a tick of node n
ThreadStarts(n) ==
    /\ frame["thread"].obj = n
    /\ frame["thread"].pc = "discover"
    /\ frame["thread"].cands = nodes

\* The tick in progress cannot take its next step within the attempts that
\* the model follows
Horizon == frame["thread"].obj # 0 /\ ~ENABLED TickStep("thread")

\* C26: whatever ticks raise, the simulation loop keeps running: every node,
\* the faulty ones too, is ticked again and again, the rest of a round after
\* a faulty tick and the faulty node in the next round; only stop() (or, in
\* the model, the end of the attempts followed) ends the ticking
C26_LoopSurvivesFaultyTicks ==
    \A n \in ScenarioIds :
        \/ []<>ThreadStarts(n)
        \/ <>[]~running
        \/ <>[]Horizon

\* a node whose tick raised between its two add_neighbor calls (the link
\* stands on its side only) is being ticked again
C26_Witness ==
    \E n, c \in ScenarioIds :
        /\ ThreadStarts(n)
        /\ Linked(n, c)
        /\ ~Linked(c, n)

\* C28: the competition and the gravity that the node class computes for
\* itself (NeighborBase.competition, NeighborBase.compute_gravity) are the
\* ones that the methods module computes for the same node state:
\* competition is max(0, attempts - max_degree) on both paths
C28_OneCompetition ==
    \A n \in Created :
        /\ NeighborBase_competition(n) = competition(n)
        /\ NeighborBase_compute_gravity(n) = compute_gravity(n)

\* The nodes of infinite max_degree
Unbounded(n) == degree_limit(n) = Infinity

\* C29: a node of infinite max_degree never has permissive_mode set and
\* never evicts a neighbor of its own to admit a candidate, neither in its
\* own tick nor as the candidate of another's, whatever its attempts count
C29_HubNeverPermissive ==
    /\ [](\A n \in Created : Unbounded(n) => ~permissive_mode[n])
    /\ [][\A r \in Runners :
              /\ (frame[r].pc = "evict_self" /\ Unbounded(frame[r].obj))
                     => frame'[r].evicted_self = None
              /\ (frame[r].pc = "check_cand" /\ Unbounded(frame[r].cand))
                     => frame'[r].evicted_cand = None]_vars

\* the Sphere, seeded with attempts, linked to both Blocks, after a failed
\* add_neighbor has counted against it
C29_Witness ==
    \E n \in Created :
        /\ Unbounded(n)
        /\ attempts[n] = MaxAttempts
        /\ Len(neighbors[n]) = 2

\* Node n differs from its last history entry in the neighbor summary, in
\* gravity, in kind, or in the coordinate of pos or of velocity that the
\* model keeps
DiffersFromLast(n) ==
    LET last == history[n][Len(history[n])]
    IN  \/ neighbor_summary(IdentityWorld, n) # last.neighbors
        \/ gravity[n] # last.gravity
        \/ kind[n] # last.type
        \/ pos[n] # last.pos
        \/ velocity[n] # last.velocity

\* The step begins a tick of node n, whose first call is record_history
RecordsHistory(n) ==
    /\ frame["task"].pc = "idle"
    /\ frame'["task"].pc = "discover"
    /\ frame'["task"].obj = n

\* C30: record_history on a node with a history appends one snapshot, with
\* the addr hashed anew, when the node differs from its last entry in the
\* neighbor summary, in gravity, in kind or in at least one component of
\* pos or of velocity, and appends nothing when it differs in none
C30_EveryChangeRecorded ==
    [][\A n \in Created :
           (RecordsHistory(n) /\ history[n] # <<>>) =>
               IF DiffersFromLast(n)
               THEN /\ Len(history'[n]) = Len(history[n]) + 1
                    /\ addr'[n] = update_addr(IdentityWorld, n).addr[n]
                    /\ history'[n][Len(history'[n])].addr = addr'[n]
               ELSE history'[n] = history[n]]_vars

\* The node and the candidate of the step that runner r has in progress
StepObj(r) == frame[r].obj
StepCand(r) ==
    IF frame[r].pc = "discover" THEN Head(frame[r].cands) ELSE frame[r].cand

\* Runner r is within the step for one candidate, before the two adds
InStep(r) == AtCandidate(r) \/ frame[r].pc \in {"evict_self", "check_cand"}

\* C31: in any discovery step that ends without creating a link, the only
\* attempts counter that changes is that of the node that refused, self or
\* the candidate, and it rises by exactly 1; attempts and permissive_mode of
\* the other node and of every evicted-then-restored neighbor are as before
\* the step (the parts of a step before its end change neither)
C31_OnlyRefuserCounts ==
    [][\A r \in Runners :
          (InStep(r) /\ frame'[r] # frame[r])
          => IF frame'[r].pc = "discover"
             THEN /\ \A n \in Ids :
                        attempts'[n] # attempts[n]
                        => /\ n \in {StepObj(r), StepCand(r)}
                           /\ attempts'[n] = attempts[n] + 1
                           /\ \A m \in Ids \ {n} :
                                 /\ attempts'[m] = attempts[m]
                                 /\ permissive_mode'[m] = permissive_mode[m]
                  /\ \A n \in Ids :
                        attempts'[n] = attempts[n]
                        => permissive_mode'[n] = permissive_mode[n]
             ELSE /\ attempts' = attempts
                  /\ permissive_mode' = permissive_mode]_vars

\* The scores that a similarity index holds for node n
Stored(index, n) == {index[i][1] : i \in {j \in 1..Len(index) : index[j][2] = n}}

\* C32: if self evicted its weakest neighbor W and the candidate c then
\* cannot reciprocate (c saturated and not permissive, or c's own eviction
\* returns none), after the step W is in neighbors(self) and self is in
\* neighbors(W) with the original score stored on both sides, and the
\* neighbor sets of self, W and c equal their values before the step
C32_EvictionRolledBack ==
    [][\A r \in Runners :
          LET f == frame[r]
              W == f.evicted_self[2]
          IN  (/\ f.pc = "check_cand"
               /\ f.evicted_self # None
               /\ frame'[r].pc = "discover")
              => /\ W \in Range(neighbors'[f.obj])
                 /\ f.obj \in Range(neighbors'[W])
                 /\ Stored(neighbors_by_similarity'[f.obj], W) = {f.evicted_self[1]}
                 /\ Stored(neighbors_by_similarity'[f.obj], W)
                        = Stored(f.pre[2][f.obj], W)
                 /\ Stored(neighbors_by_similarity'[W], f.obj)
                        = Stored(f.pre[2][W], f.obj)
                 /\ Stored(neighbors_by_similarity'[W], f.obj) # {}
                 /\ \A n \in {f.obj, W, f.cand} :
                        Range(neighbors'[n]) = Range(f.pre[1][n])]_vars

\* a saturated node has evicted its weakest neighbor for a candidate that
\* refused, and holds that neighbor again
C32_Witness ==
    LET f == frame["task"]
    IN  /\ f.pc = "discover"
        /\ f.obj \in log.evicted
        /\ f.obj \in log.restored
        /\ log.admitted = {}
        /\ Len(neighbors[f.obj]) = degree_limit(f.obj)

\* C33: if self is saturated and in permissive mode and the candidate's
\* score is at most self's lowest stored neighbor score (a tie included),
\* the discovery step changes nothing: no neighbor list, score index,
\* attempts counter or permissive_mode of any node changes, and the step
\* ends with the attempt to evict
C33_WeakCandidateChangesNothing ==
    [][\A r \in Runners :
          LET f == frame[r]
              n == f.obj
              c == StepCand(r)
              lowest == lowest_similarity_neighbor(World, n)
              score == IF f.pc = "discover" THEN should_connect(n, c).score
                       ELSE f.score
          IN  (/\ AtCandidate(r) \/ f.pc = "evict_self"
               /\ frame'[r] # f
               /\ c # n /\ ~Linked(n, c)
               /\ ~can_accept_more_neighbors(World, n)
               /\ permissive_mode[n]
               /\ lowest # None
               /\ score <= lowest[1])
              => /\ neighbors' = neighbors
                 /\ neighbors_by_similarity' = neighbors_by_similarity
                 /\ attempts' = attempts
                 /\ permissive_mode' = permissive_mode
                 /\ f.pc = "evict_self" => frame'[r] = Continue(f)]_vars

\* a saturated, permissive node has just passed by a candidate whose score
\* passes its threshold and ties with its lowest stored score, in a tick
\* that has changed no link so far
C33_Witness ==
    LET f == frame["task"]
        n == f.obj
    IN  /\ f.pc = "discover"
        /\ Len(f.cands) < Len(nodes)
        /\ LET c == nodes[Len(nodes) - Len(f.cands)]
           IN  /\ c # n /\ ~Linked(n, c)
               /\ ~can_accept_more_neighbors(World, n)
               /\ permissive_mode[n]
               /\ should_connect(n, c).ok
               /\ should_connect(n, c).score
                      = lowest_similarity_neighbor(World, n)[1]
               /\ log = EmptyLog

\* The node whose tick runner r begins or continues in the step taken
Ticking(r) == IF frame[r].pc = "idle" THEN frame'[r].obj ELSE frame[r].obj

\* C34 (as stated): a tick of node X modifies no field of any other node
\* except that node's neighbor list and score index: the other nodes'
\* attempts, permissive_mode, pos, velocity, gravity, addr and history are
\* unchanged by X's tick
C34_TickTouchesOnlyLinksOfOthers ==
    [][\A r \in Runners :
          frame'[r] # frame[r]
          => \A n \in Ids \ {Ticking(r)} :
                /\ attempts'[n] = attempts[n]
                /\ permissive_mode'[n] = permissive_mode[n]
                /\ pos'[n] = pos[n]
                /\ velocity'[n] = velocity[n]
                /\ gravity'[n] = gravity[n]
                /\ addr'[n] = addr[n]
                /\ history'[n] = history[n]]_vars

\* C34 (amended): a tick of node X modifies no field of any other node
\* except that node's neighbor list, score index, attempts and
\* permissive_mode: the other nodes' pos, velocity, gravity, addr and
\* history are unchanged by X's tick
C34_TickKeepsStateOfOthers ==
    [][\A r \in Runners :
          frame'[r] # frame[r]
          => \A n \in Ids \ {Ticking(r)} :
                /\ pos'[n] = pos[n]
                /\ velocity'[n] = velocity[n]
                /\ gravity'[n] = gravity[n]
                /\ addr'[n] = addr[n]
                /\ history'[n] = history[n]]_vars

\* a node ends the discovery of a tick of its own in which it has linked
\* with a peer, while a third node has been counted against
C34_Witness ==
    LET f == frame["task"]
        h == history[f.obj]
    IN  /\ f.pc = "gravity"
        /\ h # <<>>
        /\ h[Len(h)].neighbor_event # None
        /\ Linked(h[Len(h)].neighbor_event[1], f.obj)
        /\ \E m \in Created \ {f.obj} : attempts[m] >= 1

\* C35: add_neighbor(obj, other) returns false and changes nothing when
\* other is obj or other is already a neighbor; returns false, changes no
\* neighbor list and adds 1 to obj.attempts when obj is at its degree limit;
\* otherwise it appends other to obj.neighbors, records the score, sets
\* attempts to 0, clears permissive_mode and returns true
C35_AddNeighborContract ==
    \A obj \in Created : \A other \in Created : \A score \in Scores :
        LET r == add_neighbor(World, obj, other, score)
        IN  IF other = obj \/ Linked(obj, other)
            THEN ~r.ok /\ r.w = World
            ELSE IF Len(neighbors[obj]) >= degree_limit(obj)
            THEN /\ ~r.ok
                 /\ r.w.neighbors = neighbors
                 /\ r.w.attempts = [attempts EXCEPT ![obj] = @ + 1]
            ELSE /\ r.ok
                 /\ r.w.neighbors = [neighbors EXCEPT ![obj] = Append(@, other)]
                 /\ Stored(r.w.neighbors_by_similarity[obj], other) = {score}
                 /\ Len(r.w.neighbors_by_similarity[obj])
                        = Len(neighbors_by_similarity[obj]) + 1
                 /\ r.w.attempts = [attempts EXCEPT ![obj] = 0]
                 /\ r.w.permissive_mode = [permissive_mode EXCEPT ![obj] = FALSE]

\* a Point called at its limit has been counted against, while the node it
\* holds was never given the Point: the calls were add_neighbor's alone
C35_Witness ==
    \E obj \in Created : \E other \in Created :
        /\ kind[obj] = "Point"
        /\ neighbors[obj] = <<other>>
        /\ ~Linked(other, obj)
        /\ attempts[obj] >= 1

\* C36: for every pair of linked nodes A and B, the score stored for B in
\* A's score index equals the score stored for A in B's score index, after
\* any sequence of admissions, evictions and restores
C36_ScoresAgree ==
    \A a, b \in Ids :
        (Linked(a, b) /\ Linked(b, a))
        => /\ Stored(neighbors_by_similarity[a], b)
                  = Stored(neighbors_by_similarity[b], a)
           /\ Cardinality(Stored(neighbors_by_similarity[a], b)) = 1

\* after a tick with a rollback, two linked nodes hold for each other the
\* score of their admission, which is not the score they would get now
C36_Witness ==
    /\ Boundary
    /\ log.restored # {}
    /\ \E a, b \in Created :
          /\ Linked(a, b) /\ Linked(b, a)
          /\ a \in log.restored
          /\ should_connect(a, b).score \notin Stored(neighbors_by_similarity[a], b)

\* C37 (as stated): every link A-B was admitted with a score that is at
\* least the connection_threshold of A and at least that of B: a node never
\* holds a neighbor whose stored score is below the node's own threshold
C37_ScoreAboveOwnThreshold ==
    \A a, b \in Ids :
        Linked(a, b)
        => \A s \in Stored(neighbors_by_similarity[a], b) :
               s >= connection_threshold(a)

\* C37 (amended): every link A-B was admitted with a score that is at least
\* the connection_threshold of the one of A and B whose tick admitted it: a
\* node never holds a neighbor whose stored score is below the lower of its
\* own threshold and the neighbor's
C37_ScoreAboveLowerThreshold ==
    \A a, b \in Ids :
        Linked(a, b)
        => \A s \in Stored(neighbors_by_similarity[a], b) :
               s >= Min(connection_threshold(a), connection_threshold(b))

\* a Point holds a Block at a score below the Point's threshold, admitted by
\* a tick of the Block
C37_Witness ==
    /\ Boundary
    /\ \E a, b \in Created :
          /\ kind[a] = "Point" /\ kind[b] = "Block"
          /\ Linked(a, b) /\ Linked(b, a)
          /\ \E s \in Stored(neighbors_by_similarity[a], b) :
                 s < connection_threshold(a) /\ s >= connection_threshold(b)

\* C38: history quiescence. If from some point on no node's neighbor set,
\* pos, velocity, gravity or payload changes, then under continued ticking
\* every node, from some point on, appends no history entry and keeps its
\* addr
C38_HistoryQuiesces ==
    <>[][/\ \A n \in Ids : Range(neighbors'[n]) = Range(neighbors[n])
         /\ UNCHANGED <<pos, velocity, gravity, data>>]_vars
    => <>[][UNCHANGED <<addr, history>>]_vars

\* C39 (as stated): link convergence. With the score between every pair of
\* nodes constant (all nodes anchored, payloads fixed) and no node created,
\* under fair ticking of all nodes the neighbor relation eventually stops
\* changing: no eviction and no re-admission happens from some point on
C39_LinksConverge ==
    <>[][\A n \in AnchoredIds : Range(neighbors'[n]) = Range(neighbors[n])]_vars

\* C39 (amended): with the score between every pair of nodes constant and
\* no node created, under fair ticking of all nodes the neighbor relation
\* between discovery steps eventually stops changing: from some point on
\* every step for a candidate ends with the neighbor sets it began with
\* (evictions still happen, each rolled back within its step)
C39_LinksConvergeBetweenSteps ==
    <>[][\A r \in Runners :
            (frame[r].pre # None /\ frame'[r].pre = None)
            => \A n \in AnchoredIds :
                   Range(neighbors'[n]) = Range(frame[r].pre[1][n])]_vars

\* between two ticks, after a tick that evicted a neighbor and restored it
\* and admitted none, a node in permissive mode has its attempts at the most
\* the model keeps
C39_Witness ==
    /\ Boundary
    /\ DOMAIN attempts = AnchoredIds
    /\ log.evicted # {} /\ log.restored # {} /\ log.admitted = {}
    /\ \E n \in AnchoredIds : permissive_mode[n] /\ attempts[n] = MaxAttempts

\* C40: a create call that raises leaves the registry as it was: the node
\* sequence and the id counter after the call are those before it
C40_RaisingCreateChangesNothing ==
    [][response' # response => (counter' = counter /\ nodes' = nodes)]_vars

====
